---- MODULE Spec2Model ----
(***************************************************************************)
(* Ingestion pipeline of rag-pulled: the Postgres-backed job queue         *)
(* (lib/ingestion/queue.ts), the processor of one claimed job              *)
(* (lib/ingestion/processor.ts), the worker tick (worker.ts) and the       *)
(* structurer and embedding adapters.  Every awaited store statement is    *)
(* one atomic step; the steps of concurrent workers and of the upload API  *)
(* interleave arbitrarily.                                                 *)
(***************************************************************************)
EXTENDS Integers, Sequences, FiniteSets, TLC

(***************************************************************************)
(* Bounds of the model.                                                    *)
(***************************************************************************)
MaxJobs == 1
\* Largest attempt_count the backoff is evaluated at (2^n * 1000 stays below 2^31).
MaxAttemptCount == 20
\* Largest number of segments the text of a file is split into.
MaxSegments == 2
\* Longest chunk list given to insertDocumentChunks by itself.
MaxChunks == 3
\* Number of job rows in the tables claimNextQueuedJob is run on by itself.
ClaimJobs == 3

Workers == {"w1", "w2"}
JobIds == 1..MaxJobs

(***************************************************************************)
(* Program constants.                                                      *)
(***************************************************************************)
DEFAULT_MAX_ATTEMPTS == 3
MinBackoffMs == 5000
MaxBackoffMs == 60000
BackoffUnitMs == 1000

NULL == "null"
EmbeddingModel == "deterministic-emb-v1"
EmbeddingDimensions == 128

\* createDocumentStructurer: the provider ids it knows.
DeterministicProvider == "deterministic-v1"
OllamaProvider == "ollama-structurer-v1"
StructurerProviders == {DeterministicProvider, OllamaProvider}
\* A provider that needs OPENCODE_ZEN_API_KEY, which the environment of the
\* workers does not set.
OpenCodeZenProvider == "opencode-zen-structurer-v1"
ConfigErrorMessage == "Required environment variable OPENCODE_ZEN_API_KEY is not set"

\* Messages of the exceptions the processor's catch block can receive.
EmbedErrorMessage == "embedding failed"
StoreErrorMessage == "store failed"
UnsupportedMessage == "File format is not yet supported by the local structurer adapter"
UnsupportedExtensionMessage == "Unsupported file extension"
NoTextMessage == "No extractable text found"

\* getOllamaStructurerModel(): the default model.
OllamaModel == "qwen2.5:14b-instruct"

\* Faulty variant: the diagnostic names neither the provider nor the model.
StructuredExtractionFailedBare(reason) == "Structured extraction failed: " \o reason

\* structure, catch (error): the error text of the failed result.
StructuredExtractionFailed(reason) ==
    "Structured extraction failed for provider \"" \o OllamaProvider
        \o "\" and model \"" \o OllamaModel \o "\": " \o reason

ExtractionFailedMessage ==
    StructuredExtractionFailed("ENOENT: no such file or directory")
ModelCallFailedMessage ==
    StructuredExtractionFailed("Ollama structurer request failed")
NotJsonMessage == StructuredExtractionFailed("Unexpected token in JSON")
NoChunksArrayMessage ==
    StructuredExtractionFailed("Structured payload missing \"chunks\" array")
ZeroChunksMessage ==
    StructuredExtractionFailed("Structured payload produced zero valid chunks")

\* Errors a rejected store call carries: code, message (as its parts) and, for an
\* aggregate error, the codes of the errors it wraps.
DbStartingUp == [code |-> "57P03",
                 message |-> <<"FATAL:", "the database system is starting up">>,
                 errors |-> << >>]
ConnectionRefused == [code |-> "ECONNREFUSED", message |-> <<"connect ECONNREFUSED">>,
                      errors |-> << >>]
ConnectionRefusedAggregate == [code |-> NULL, message |-> << >>,
                               errors |-> <<"ECONNREFUSED", "ECONNREFUSED">>]
ConnectionTerminated == [code |-> NULL,
                         message |-> <<"Connection terminated unexpectedly">>,
                         errors |-> << >>]
StoreErrors == {DbStartingUp, ConnectionRefused, ConnectionRefusedAggregate,
                ConnectionTerminated}

(***************************************************************************)
(* Uploaded files.  A file has an extension and lines; a line is the       *)
(* sequence of its comma-separated cells, <<>> being a blank line.  The    *)
(* stored file can be read or not.                                         *)
(***************************************************************************)
CsvRows == [ext |-> ".csv", lines |-> << <<"a", "b">>, <<>>, <<"1", "2">> >>, readable |-> TRUE]
CsvBlank == [ext |-> ".csv", lines |-> << <<>> >>, readable |-> TRUE]
PdfFile == [ext |-> ".pdf", lines |-> << >>, readable |-> TRUE]
Files == {CsvRows, CsvBlank, PdfFile}
\* Files whose stored path cannot be read: reading them throws.
MissingExe == [ext |-> ".exe", lines |-> << >>, readable |-> FALSE]
MissingTxt == [ext |-> ".txt", lines |-> << >>, readable |-> FALSE]

\* The uploadedFiles lists an enqueue call is given.
Uploads == {<< >>, <<CsvRows>>, <<CsvBlank>>, <<PdfFile>>, <<PdfFile, CsvRows>>}

\* text-extraction: the extensions extractTextFromFile reads.
TEXT_EXTENSIONS == {".txt", ".csv", ".md", ".markdown", ".json", ".xml", ".html", ".htm"}

\* What the remote model answers for one segment: the call rejects, or it returns
\* text that parses as JSON or not, with or without a "chunks" array. An entry of the array is an object or not; its
\* text is a string (a sequence of characters, " " being white space) or not; its
\* metadata is an object (keys to values) or not.
NoMetadata == << >>
SectionMetadata == [section |-> "a"]
ClashingMetadata == [section |-> "b", segmentIndex |-> 7, sourceExtension |-> ".zip"]
Entry(chunkIndex, text) ==
    [object |-> TRUE, chunkIndex |-> chunkIndex, textIsString |-> TRUE, text |-> text,
     metadataIsObject |-> FALSE, metadata |-> NoMetadata]
ModelCallRejects ==
    [rejects |-> TRUE, json |-> FALSE, hasChunksArray |-> FALSE, chunks |-> << >>]
NotJsonOutput ==
    [rejects |-> FALSE, json |-> FALSE, hasChunksArray |-> FALSE, chunks |-> << >>]
NoChunksArrayOutput ==
    [rejects |-> FALSE, json |-> TRUE, hasChunksArray |-> FALSE, chunks |-> << >>]
BlankChunksOutput ==
    [rejects |-> FALSE, json |-> TRUE, hasChunksArray |-> TRUE,
     chunks |-> << Entry(0, << >>) >>]
TwoChunksOutput ==
    [rejects |-> FALSE, json |-> TRUE, hasChunksArray |-> TRUE,
     chunks |-> << Entry(2, <<"x">>), Entry(3, << >>), Entry(10, <<"y">>) >>]
MixedEntriesOutput ==
    [rejects |-> FALSE, json |-> TRUE, hasChunksArray |-> TRUE,
     chunks |-> << [Entry(4, <<"n">>) EXCEPT !.object = FALSE],
                   [Entry(4, <<"7">>) EXCEPT !.textIsString = FALSE],
                   Entry(5, <<" ">>),
                   [Entry(9, <<" ", "p", " ">>) EXCEPT !.metadataIsObject = TRUE,
                                                       !.metadata = ClashingMetadata],
                   [Entry(9, <<"q">>) EXCEPT !.metadataIsObject = TRUE,
                                             !.metadata = SectionMetadata] >>]
ModelOutputs == {NotJsonOutput, BlankChunksOutput, TwoChunksOutput}
SegmentOutputs ==
    ModelOutputs \cup {ModelCallRejects, NoChunksArrayOutput, MixedEntriesOutput}

VARIABLES
    now,            \* wall clock, ms
    ingestionJobs,  \* table ingestion_jobs: job id -> row
    uploadedDocuments, \* table uploaded_documents: document id -> row
    documentChunks, \* table document_chunks: set of rows
    chunkEmbeddings, \* table chunk_embeddings: set of rows
    api,            \* the enqueueIngestionJob call in flight
    wk,             \* per worker process: position and locals of runTick
    overlapped,     \* per worker: jobs returned by claim calls overlapping its own
    requested,      \* per job: the uploadedFiles its enqueue call was given
    returned,       \* per job: the document orders getDocumentsForJob has returned
    structurerProvider, \* DOCUMENT_STRUCTURER_PROVIDER of the worker processes
    isShuttingDown  \* per worker process: the flag set by SIGINT / SIGTERM

vars == <<now, ingestionJobs, uploadedDocuments, documentChunks, chunkEmbeddings,
          api, wk, overlapped, requested, returned, structurerProvider,
          isShuttingDown>>

(***************************************************************************)
(* Pure helpers.                                                           *)
(***************************************************************************)
Min(a, b) == IF a < b THEN a ELSE b
Max(a, b) == IF a > b THEN a ELSE b

RECURSIVE Pow2(_)
Pow2(n) == IF n = 0 THEN 1 ELSE 2 * Pow2(n - 1)

\* Faulty variant: Math.min and Math.max exchanged.
backoffMsSwapped(attempt_count) ==
    Max(MaxBackoffMs, Min(MinBackoffMs, Pow2(attempt_count) * BackoffUnitMs))

\* Faulty variant: no lower clamp, the delay is 2^n seconds up to the upper clamp.
backoffMsNoFloor(attempt_count) ==
    Min(MaxBackoffMs, Pow2(attempt_count) * BackoffUnitMs)

\* Faulty variant: ORDER BY created_at DESC, the youngest eligible job first.
CandidatesNewestFirst(at) ==
    {j \in DOMAIN ingestionJobs :
        /\ ingestionJobs[j].status = "queued"
        /\ ingestionJobs[j].next_run_at <= at
        /\ ingestionJobs[j].attempt_count < ingestionJobs[j].max_attempts
        /\ \A k \in DOMAIN ingestionJobs :
              (/\ ingestionJobs[k].status = "queued"
               /\ ingestionJobs[k].next_run_at <= at
               /\ ingestionJobs[k].attempt_count < ingestionJobs[k].max_attempts)
                  => ingestionJobs[j].created_at >= ingestionJobs[k].created_at}

\* queue.ts: Math.min(60_000, Math.max(5_000, 2 ** attempt_count * 1_000))
backoffMs(attempt_count) ==
    Min(MaxBackoffMs, Max(MinBackoffMs, Pow2(attempt_count) * BackoffUnitMs))

\* The clock advances in steps of the shortest backoff.
ClockStepMs == backoffMs(0)

RECURSIVE DropBlank(_)
\* .map((row) => row.trim()).filter(Boolean)
DropBlank(lines) ==
    IF lines = << >> THEN << >>
    ELSE IF Head(lines) = << >> THEN DropBlank(Tail(lines))
    ELSE <<Head(lines)>> \o DropBlank(Tail(lines))

RECURSIVE JoinCells(_)
\* row.split(',').map((value) => value.trim()).join(' | ')
JoinCells(cells) ==
    IF Len(cells) <= 1 THEN cells
    ELSE <<Head(cells), "|">> \o JoinCells(Tail(cells))

\* DeterministicDocumentStructurer.structure
structure(file) ==
    IF file.ext = ".csv"
    THEN LET rows == DropBlank(file.lines)
         IN [status |-> "structured",
             chunks |-> [index \in 1..Len(rows) |->
                            [chunkIndex |-> index - 1, text |-> JoinCells(rows[index])]],
             error |-> NULL]
    ELSE [status |-> "unsupported", chunks |-> << >>, error |-> UnsupportedMessage]

\* text-extraction: isSupportedExtractionExtension
isSupportedExtractionExtension(ext) ==
    ext \in TEXT_EXTENSIONS \/ ext = ".pdf" \/ ext = ".docx" \/ ext = ".doc"

RECURSIVE TrimStart(_)
TrimStart(text) ==
    IF text # << >> /\ Head(text) = " " THEN TrimStart(Tail(text)) ELSE text

RECURSIVE TrimEnd(_)
TrimEnd(text) ==
    IF text # << >> /\ text[Len(text)] = " "
    THEN TrimEnd(SubSeq(text, 1, Len(text) - 1)) ELSE text

\* String.prototype.trim
Trim(text) == TrimEnd(TrimStart(text))

RECURSIVE ValidEntries(_)
\* normalizeChunks: the entries that are objects whose text is a string with
\* more than white space, in order.
ValidEntries(value) ==
    IF value = << >> THEN << >>
    ELSE IF \/ ~Head(value).object
            \/ ~Head(value).textIsString
            \/ Trim(Head(value).text) = << >>
         THEN ValidEntries(Tail(value))
         ELSE <<Head(value)>> \o ValidEntries(Tail(value))

\* normalizeChunks: the valid entries renumbered from 0 with trimmed text, the
\* metadata kept only if an object; no valid entry is an error.
normalizeChunks(value) ==
    LET valid == ValidEntries(value)
    IN [threw |-> valid = << >>,
        chunks |-> [i \in 1..Len(valid) |->
                      [chunkIndex |-> i - 1, text |-> Trim(valid[i].text),
                       hasMetadata |-> valid[i].metadataIsObject,
                       metadata |-> IF valid[i].metadataIsObject
                                    THEN valid[i].metadata ELSE NoMetadata]]]

\* { ...(chunk.metadata ?? {}), sourceExtension: extension, segmentIndex }
SegmentMetadata(chunk, extension, segmentIndex) ==
    LET given == IF chunk.hasMetadata THEN chunk.metadata ELSE NoMetadata
    IN [k \in DOMAIN given \cup {"sourceExtension", "segmentIndex"} |->
          IF k = "sourceExtension" THEN extension
          ELSE IF k = "segmentIndex" THEN segmentIndex
          ELSE given[k]]

\* Faulty variant: the chunks of a segment keep the index normalizeChunks gave
\* them, so the numbering restarts at 0 in every segment.
SegmentChunksRestarting(normalized, chunks, extension, segmentIndex) ==
    chunks \o [i \in 1..Len(normalized) |->
                 [chunkIndex |-> normalized[i].chunkIndex, text |-> normalized[i].text,
                  metadata |-> SegmentMetadata(normalized[i], extension, segmentIndex)]]

\* The inner loop of structure: the chunks of one segment pushed behind the chunks
\* so far, chunkIndex: chunks.length.
SegmentChunks(normalized, chunks, extension, segmentIndex) ==
    chunks \o [i \in 1..Len(normalized) |->
                 [chunkIndex |-> Len(chunks) + i - 1, text |-> normalized[i].text,
                  metadata |-> SegmentMetadata(normalized[i], extension, segmentIndex)]]

RECURSIVE StructureSegments(_, _, _, _)
\* The segment loop of structure from segment segmentIndex on, raws being the
\* model's answers for the segments: the first exception ends it with "failed".
StructureSegments(extension, raws, segmentIndex, chunks) ==
    IF segmentIndex >= Len(raws)
    THEN [status |-> "structured", chunks |-> chunks, error |-> NULL]
    ELSE LET raw == raws[segmentIndex + 1]
         IN IF raw.rejects
            THEN [status |-> "failed", chunks |-> << >>, error |-> ModelCallFailedMessage]
            ELSE IF ~raw.json
            THEN [status |-> "failed", chunks |-> << >>, error |-> NotJsonMessage]
            ELSE IF ~raw.hasChunksArray
            THEN [status |-> "failed", chunks |-> << >>, error |-> NoChunksArrayMessage]
            ELSE IF normalizeChunks(raw.chunks).threw
            THEN [status |-> "failed", chunks |-> << >>, error |-> ZeroChunksMessage]
            ELSE StructureSegments(extension, raws, segmentIndex + 1,
                                   SegmentChunks(normalizeChunks(raw.chunks).chunks,
                                                 chunks, extension, segmentIndex))

\* OllamaDocumentStructurer.structure for a file whose text splits into Len(raws)
\* segments, the model answering raws[i] for segment i.
ollamaStructureSegments(file, raws) ==
    IF ~isSupportedExtractionExtension(file.ext)
    THEN [status |-> "unsupported", chunks |-> << >>, error |-> UnsupportedExtensionMessage]
    ELSE IF ~file.readable
    THEN [status |-> "failed", chunks |-> << >>, error |-> ExtractionFailedMessage]
    ELSE IF DropBlank(file.lines) = << >>
    THEN [status |-> "failed", chunks |-> << >>, error |-> NoTextMessage]
    ELSE StructureSegments(file.ext, raws, 0, << >>)

\* OllamaDocumentStructurer.structure for a text of one segment, the model
\* answering raw: every exception inside it becomes the result "failed".
ollamaStructure(file, raw) == ollamaStructureSegments(file, <<raw>>)

\* DeterministicEmbeddingGenerator.embed: the result's model and dimension.
embed(text) == [model |-> EmbeddingModel, dimensions |-> EmbeddingDimensions]

\* worker: isTransientDatabaseNotReadyError(error)
isTransientDatabaseNotReadyError(error) ==
    \/ error.code = "57P03"
    \/ \E i \in DOMAIN error.message : error.message[i] = "the database system is starting up"
    \/ error.code = "ECONNREFUSED"
    \/ \E i \in DOMAIN error.errors : error.errors[i] = "ECONNREFUSED"

(***************************************************************************)
(* Store queries.                                                          *)
(***************************************************************************)
JobRows == DOMAIN ingestionJobs
DocRows == DOMAIN uploadedDocuments

\* claimNextQueuedJob: the WHERE clause of the candidate SELECT.
Eligible(j, at) ==
    /\ ingestionJobs[j].status = "queued"
    /\ ingestionJobs[j].next_run_at <= at
    /\ ingestionJobs[j].attempt_count < ingestionJobs[j].max_attempts

\* ORDER BY created_at ASC LIMIT 1: a row of least created_at (ties in any order).
Candidates(at) ==
    {j \in JobRows : /\ Eligible(j, at)
                     /\ \A k \in JobRows :
                          Eligible(k, at) => ingestionJobs[j].created_at <= ingestionJobs[k].created_at}

\* Faulty variant: the UPDATE matches on the id alone, without status = 'queued'.
ClaimUpdateMatchesIdOnly(j) == j \in JobRows

\* claimNextQueuedJob: the WHERE clause of the conditional UPDATE.
ClaimUpdateMatches(j) ==
    /\ j \in JobRows
    /\ ingestionJobs[j].status = "queued"

\* getDocumentsForJob: the results the SELECT ... ORDER BY created_at can return,
\* every order of the job's documents that is ascending in created_at. Rows of
\* equal created_at come in an order the store does not fix.
getDocumentsForJob(j) ==
    LET docs == {d \in DocRows : d[1] = j}
        n == Cardinality(docs)
    IN {s \in [1..n -> docs] :
          /\ \A a \in 1..n : \A b \in 1..n : a # b => s[a] # s[b]
          /\ \A a \in 1..n : \A b \in 1..n :
                a < b => uploadedDocuments[s[a]].created_at
                            <= uploadedDocuments[s[b]].created_at}

\* Faulty variant: <= for <, so a job that has used its last attempt is re-queued.
attemptsLeftInclusive(job) == job.attempt_count <= job.max_attempts

\* Faulty variant: the last attempt is given up one claim early.
attemptsLeftOffByOne(job) == job.attempt_count + 1 < job.max_attempts

\* setJobFailedWithRetry: const attemptsLeft = job.attempt_count < job.max_attempts
attemptsLeft(job) == job.attempt_count < job.max_attempts

ChunksOf(d) == {c \in documentChunks : c.document_id = d}
EmbeddingsOf(c) == {e \in chunkEmbeddings : e.chunk_id = c.id}

\* Faulty variant: every insert of a document's chunks reuses the same ids.
NextBatchReused(d) == 1

\* randomUUID() for the rows of one insertDocumentChunks call: fresh ids, named by
\* the document, the number of the insert and the position in it.
NextBatch(d) == 1 + Cardinality({c.id[2] : c \in ChunksOf(d)})

(***************************************************************************)
(* Initial state: empty tables, every worker between ticks.                *)
(***************************************************************************)
NoRow == [attempt_count |-> 0, max_attempts |-> 0]
NoResult == [status |-> "none", chunks |-> << >>, error |-> NULL]

IdleWorker ==
    [pc |-> "idle", isTickRunning |-> FALSE, candidateJob |-> 0, jobId |-> 0,
     documents |-> << >>, di |-> 0, insertedChunks |-> << >>, ci |-> 0,
     message |-> NULL, job |-> NoRow, raws |-> << >>, structured |-> NoResult]

IdleApi == [pc |-> "idle", jobId |-> 0, uploadedFiles |-> << >>]

Init ==
    /\ now = 0
    /\ ingestionJobs = << >>
    /\ uploadedDocuments = << >>
    /\ documentChunks = {}
    /\ chunkEmbeddings = {}
    /\ api = IdleApi
    /\ wk = [w \in Workers |-> IdleWorker]
    /\ overlapped = [w \in Workers |-> {}]
    /\ requested = << >>
    /\ returned = << >>
    /\ structurerProvider \in StructurerProviders
    /\ isShuttingDown = [w \in Workers |-> FALSE]

(***************************************************************************)
(* The wall clock.  The store sees time only in next_run_at <= now, so the *)
(* clock is advanced while a re-queued job waits for its backoff.          *)
(***************************************************************************)
ClockTick ==
    /\ \E j \in JobRows : ingestionJobs[j].status = "queued" /\ ingestionJobs[j].next_run_at > now
    /\ now' = now + ClockStepMs
    /\ UNCHANGED <<ingestionJobs, uploadedDocuments, documentChunks, chunkEmbeddings,
                   api, wk, overlapped, requested, returned, structurerProvider, isShuttingDown>>

(***************************************************************************)
(* enqueueIngestionJob: two INSERT statements, no transaction.             *)
(***************************************************************************)
EnqueueInsertJob ==
    /\ api.pc = "idle"
    /\ Cardinality(JobRows) < MaxJobs
    /\ \E uploadedFiles \in Uploads :
         LET jobId == Cardinality(JobRows) + 1
             row == [status |-> "queued", attempt_count |-> 0,
                     max_attempts |-> DEFAULT_MAX_ATTEMPTS, next_run_at |-> now,
                     error |-> NULL, created_at |-> now]
         IN /\ ingestionJobs' = (jobId :> row) @@ ingestionJobs
            /\ api' = IF Len(uploadedFiles) > 0
                      THEN [pc |-> "insert_documents", jobId |-> jobId,
                            uploadedFiles |-> uploadedFiles]
                      ELSE IdleApi
            /\ requested' = (jobId :> uploadedFiles) @@ requested
            /\ returned' = (jobId :> {}) @@ returned
    /\ UNCHANGED <<now, uploadedDocuments, documentChunks, chunkEmbeddings, wk,
                   overlapped, structurerProvider, isShuttingDown>>

EnqueueInsertDocuments ==
    /\ api.pc = "insert_documents"
    /\ uploadedDocuments' =
         [k \in {<<api.jobId, i>> : i \in 1..Len(api.uploadedFiles)} |->
            [job_id |-> api.jobId, file |-> api.uploadedFiles[k[2]],
             structured_status |-> "pending", error |-> NULL, created_at |-> now]]
         @@ uploadedDocuments
    /\ api' = IdleApi
    /\ UNCHANGED <<now, ingestionJobs, documentChunks, chunkEmbeddings, wk,
                   overlapped, requested, returned, structurerProvider, isShuttingDown>>

\* The second INSERT rejects: the job row of the first INSERT stays.
EnqueueInsertDocumentsThrows ==
    /\ api.pc = "insert_documents"
    /\ api' = IdleApi
    /\ UNCHANGED <<now, ingestionJobs, uploadedDocuments, documentChunks, chunkEmbeddings,
                   wk, overlapped, requested, returned, structurerProvider, isShuttingDown>>

(***************************************************************************)
(* worker.ts runTick and queue.ts claimNextQueuedJob.                      *)
(***************************************************************************)
\* startWorker has installed the timer of worker w: setInterval(runTick).
TimerInstalled(w) == wk[w].pc \notin {"starting", "exited"}

\* validateIngestionProviderEnv() returns without throwing.
ConfigValid == structurerProvider # OpenCodeZenProvider

\* Faulty variant: the guard without the shutdown flag.
TickGuardIgnoresShutdown(w) == ~wk[w].isTickRunning

\* Faulty variant: the guard without the reentrancy flag.
TickGuardNoReentrancy(w) == ~isShuttingDown[w]

\* runTick: if (isShuttingDown || isTickRunning) return; the condition to go on.
TickGuard(w) == ~(isShuttingDown[w] \/ wk[w].isTickRunning)

\* The timer fires between ticks: runTick passes its guard, sets isTickRunning and
\* claimNextQueuedJob runs its candidate SELECT with "now".  Without a candidate
\* the call returns null and the tick ends (finally: isTickRunning = false).
RunTick(w) ==
    /\ TimerInstalled(w)
    /\ TickGuard(w)
    /\ IF Candidates(now) = {}
       THEN wk' = [wk EXCEPT ![w] = IdleWorker]
       ELSE \E j \in Candidates(now) :
              wk' = [wk EXCEPT ![w] = [IdleWorker EXCEPT !.pc = "claim_update",
                                                         !.isTickRunning = TRUE,
                                                         !.candidateJob = j]]
    /\ overlapped' = [overlapped EXCEPT ![w] = {}]
    /\ UNCHANGED <<now, ingestionJobs, uploadedDocuments, documentChunks, chunkEmbeddings,
                   api, requested, returned, structurerProvider, isShuttingDown>>

\* The timer fires while a tick is awaiting or after the shutdown signal: runTick
\* returns at its guard.
RunTickWhileRunning(w) ==
    /\ TimerInstalled(w)
    /\ ~TickGuard(w)
    /\ UNCHANGED vars

\* The conditional UPDATE ... RETURNING; with a claimed row the tick goes on to
\* processIngestionJob, without one the call returns null and the tick ends.
ClaimUpdate(w) ==
    LET j == wk[w].candidateJob
    IN /\ wk[w].pc = "claim_update"
       /\ IF ClaimUpdateMatches(j)
          THEN /\ ingestionJobs' =
                    [ingestionJobs EXCEPT ![j].status = "processing_structure",
                                          ![j].attempt_count = @ + 1]
               /\ wk' = [wk EXCEPT ![w].pc = "get_documents", ![w].jobId = j,
                                   ![w].candidateJob = 0]
               /\ overlapped' =
                    [v \in Workers |->
                       IF v # w /\ wk[v].pc = "claim_update"
                       THEN overlapped[v] \cup {j}
                       ELSE overlapped[v]]
          ELSE /\ wk' = [wk EXCEPT ![w] = IdleWorker]
               /\ overlapped' = [overlapped EXCEPT ![w] = {}]
               /\ UNCHANGED ingestionJobs
       /\ UNCHANGED <<now, uploadedDocuments, documentChunks, chunkEmbeddings, api, requested, returned,
                   structurerProvider, isShuttingDown>>

(***************************************************************************)
(* processor.ts processIngestionJob.                                       *)
(***************************************************************************)
\* Faulty variant: the job status moves to the embedding phase before the loop, also
\* for an empty document list.
NextDocumentPcEmbedsFirst(documents, di) ==
    IF documents = << >> THEN "set_processing_embeddings"
    ELSE IF di > Len(documents) THEN "set_completed" ELSE "mark_processing"

NextDocumentPc(documents, di) ==
    IF di > Len(documents) THEN "set_completed" ELSE "mark_processing"

CurrentDocument(w) == wk[w].documents[wk[w].di]

\* The catch block keeps the job id and the exception's message.
Caught(w, message) ==
    [IdleWorker EXCEPT !.pc = "failed_select", !.isTickRunning = TRUE,
                       !.jobId = wk[w].jobId, !.message = message]

\* validateIngestionProviderEnv() throws at the start of the try block.
ValidationFails(w) ==
    /\ wk[w].pc = "get_documents"
    /\ ~ConfigValid
    /\ wk' = [wk EXCEPT ![w] = Caught(w, ConfigErrorMessage)]
    /\ overlapped' = [overlapped EXCEPT ![w] = {}]
    /\ UNCHANGED <<now, ingestionJobs, uploadedDocuments, documentChunks, chunkEmbeddings,
                   api, requested, returned, structurerProvider, isShuttingDown>>

\* validateIngestionProviderEnv(); const documents = await getDocumentsForJob(jobId)
GetDocuments(w) ==
    /\ wk[w].pc = "get_documents"
    /\ ConfigValid
    /\ \E documents \in getDocumentsForJob(wk[w].jobId) :
         /\ wk' = [wk EXCEPT ![w].documents = documents, ![w].di = 1,
                             ![w].pc = NextDocumentPc(documents, 1)]
         /\ returned' = [returned EXCEPT ![wk[w].jobId] = @ \cup {documents}]
    /\ overlapped' = [overlapped EXCEPT ![w] = {}]
    /\ UNCHANGED <<now, ingestionJobs, uploadedDocuments, documentChunks, chunkEmbeddings,
                   api, requested, structurerProvider, isShuttingDown>>

\* Faulty variant: a null error leaves the document's stored error as it is.
markDocumentStructuredStatusKeepsError(d, status, error) ==
    uploadedDocuments' = [uploadedDocuments EXCEPT ![d].structured_status = status,
                                                   ![d].error = IF error = NULL THEN @
                                                                ELSE error]

\* markDocumentStructuredStatus(documentId, status, error)
markDocumentStructuredStatus(d, status, error) ==
    uploadedDocuments' = [uploadedDocuments EXCEPT ![d].structured_status = status,
                                                   ![d].error = error]

\* Faulty variant: a null error leaves the stored error as it is.
setJobStatusKeepsError(j, status, error) ==
    ingestionJobs' = [ingestionJobs EXCEPT ![j].status = status,
                                           ![j].error = IF error = NULL THEN @ ELSE error]

\* setJobStatus(jobId, status, error = null): the error is always written.
setJobStatus(j, status, error) ==
    ingestionJobs' = [ingestionJobs EXCEPT ![j].status = status, ![j].error = error]

\* Faulty variant: a document that an earlier attempt finished is skipped.
MarkProcessingSkipsDone(w) ==
    /\ wk[w].pc = "mark_processing"
    /\ IF uploadedDocuments[CurrentDocument(w)].structured_status
            \in {"structured", "unsupported", "failed"}
       THEN /\ wk' = [wk EXCEPT ![w].di = @ + 1,
                                ![w].pc = NextDocumentPc(wk[w].documents, wk[w].di + 1)]
            /\ UNCHANGED uploadedDocuments
       ELSE /\ markDocumentStructuredStatus(CurrentDocument(w), "processing", NULL)
            /\ wk' = [wk EXCEPT ![w].pc = "structure"]
    /\ UNCHANGED <<now, ingestionJobs, documentChunks, chunkEmbeddings, api,
                   overlapped, requested, returned, structurerProvider, isShuttingDown>>

\* await markDocumentStructuredStatus(document.id, 'processing')
MarkProcessing(w) ==
    /\ wk[w].pc = "mark_processing"
    /\ markDocumentStructuredStatus(CurrentDocument(w), "processing", NULL)
    /\ wk' = [wk EXCEPT ![w].pc = "structure"]
    /\ UNCHANGED <<now, ingestionJobs, documentChunks, chunkEmbeddings, api,
                   overlapped, requested, returned, structurerProvider, isShuttingDown>>

\* createDocumentStructurer(getDocumentStructurerProvider()).structure(...)
structureDocument(d, raw) ==
    IF structurerProvider = DeterministicProvider
    THEN structure(uploadedDocuments[d].file)
    ELSE ollamaStructure(uploadedDocuments[d].file, raw)

\* structurer.structure returns unsupported: the document is marked, next document.
StructureUnsupported(w) ==
    /\ wk[w].pc = "structure"
    /\ \E raw \in ModelOutputs :
         LET d == CurrentDocument(w)
             structured == structureDocument(d, raw)
         IN /\ structured.status = "unsupported"
            /\ markDocumentStructuredStatus(d, "unsupported", structured.error)
    /\ wk' = [wk EXCEPT ![w].di = @ + 1,
                        ![w].pc = NextDocumentPc(wk[w].documents, wk[w].di + 1)]
    /\ UNCHANGED <<now, ingestionJobs, documentChunks, chunkEmbeddings, api,
                   overlapped, requested, returned, structurerProvider, isShuttingDown>>

\* insertDocumentChunks(documentId, chunks): one row per chunk with the chunk's own
\* chunkIndex and a fresh id; returns the inserted rows.
insertDocumentChunks(d, chunks) ==
    [i \in 1..Len(chunks) |->
       [id |-> <<d, NextBatch(d), i>>, document_id |-> d,
        chunk_index |-> chunks[i].chunkIndex, text |-> chunks[i].text]]

\* Faulty variant: a failed structuring result is thrown to the catch block.
StructureFailedRoutesToRetry(w) ==
    /\ wk[w].pc = "structure"
    /\ \E raw \in ModelOutputs :
         LET structured == structureDocument(CurrentDocument(w), raw)
         IN /\ structured.status = "failed"
            /\ wk' = [wk EXCEPT ![w] = Caught(w, structured.error)]
    /\ UNCHANGED <<now, ingestionJobs, uploadedDocuments, documentChunks, chunkEmbeddings,
                   api, overlapped, requested, returned, structurerProvider, isShuttingDown>>

\* structurer.structure returns failed: the document is marked, next document.
StructureFailed(w) ==
    /\ wk[w].pc = "structure"
    /\ \E raw \in ModelOutputs :
         LET d == CurrentDocument(w)
             structured == structureDocument(d, raw)
         IN /\ structured.status = "failed"
            /\ markDocumentStructuredStatus(d, "failed", structured.error)
    /\ wk' = [wk EXCEPT ![w].di = @ + 1,
                        ![w].pc = NextDocumentPc(wk[w].documents, wk[w].di + 1)]
    /\ UNCHANGED <<now, ingestionJobs, documentChunks, chunkEmbeddings, api,
                   overlapped, requested, returned, structurerProvider, isShuttingDown>>

\* structurer.structure returns structured: the chunks are inserted.
StructureInsertChunks(w) ==
    /\ wk[w].pc = "structure"
    /\ \E raw \in ModelOutputs :
         LET d == CurrentDocument(w)
             structured == structureDocument(d, raw)
             rows == insertDocumentChunks(d, structured.chunks)
         IN /\ structured.status = "structured"
            /\ documentChunks' = documentChunks \cup {rows[i] : i \in DOMAIN rows}
            /\ wk' = [wk EXCEPT ![w].insertedChunks = rows,
                                ![w].pc = "set_processing_embeddings"]
    /\ UNCHANGED <<now, ingestionJobs, uploadedDocuments, chunkEmbeddings, api,
                   overlapped, requested, returned, structurerProvider, isShuttingDown>>

\* await setJobStatus(jobId, 'processing_embeddings')
SetProcessingEmbeddings(w) ==
    /\ wk[w].pc = "set_processing_embeddings"
    /\ setJobStatus(wk[w].jobId, "processing_embeddings", NULL)
    /\ wk' = [wk EXCEPT ![w].ci = 1,
                        ![w].pc = IF wk[w].insertedChunks = << >>
                                  THEN "mark_structured" ELSE "embed"]
    /\ UNCHANGED <<now, uploadedDocuments, documentChunks, chunkEmbeddings, api,
                   overlapped, requested, returned, structurerProvider, isShuttingDown>>

\* insertChunkEmbedding(chunkId, embedding): the row of one embedding.
insertChunkEmbedding(chunkId, embedding) ==
    [chunk_id |-> chunkId, embedding_model |-> embedding.model,
     embedding_dim |-> embedding.dimensions]

\* The unique index chunk_embeddings_chunk_model_idx rejects a second row.
UniqueChunkModel(row) ==
    \A e \in chunkEmbeddings :
        ~(e.chunk_id = row.chunk_id /\ e.embedding_model = row.embedding_model)

\* Faulty variant: the embedding loop ends after the first chunk.
EmbedChunkMarksEarly(w) ==
    /\ wk[w].pc = "embed"
    /\ LET chunk == wk[w].insertedChunks[wk[w].ci]
           row == insertChunkEmbedding(chunk.id, embed(chunk.text))
       IN IF UniqueChunkModel(row)
          THEN /\ chunkEmbeddings' = chunkEmbeddings \cup {row}
               /\ wk' = [wk EXCEPT ![w].ci = @ + 1, ![w].pc = "mark_structured"]
          ELSE /\ wk' = [wk EXCEPT ![w] = Caught(w, StoreErrorMessage)]
               /\ UNCHANGED chunkEmbeddings
    /\ UNCHANGED <<now, ingestionJobs, uploadedDocuments, documentChunks, api,
                   overlapped, requested, returned, structurerProvider, isShuttingDown>>

\* One turn of the embedding loop: embed(chunk.text), insertChunkEmbedding.
EmbedChunk(w) ==
    /\ wk[w].pc = "embed"
    /\ LET chunk == wk[w].insertedChunks[wk[w].ci]
           row == insertChunkEmbedding(chunk.id, embed(chunk.text))
       IN IF UniqueChunkModel(row)
          THEN /\ chunkEmbeddings' = chunkEmbeddings \cup {row}
               /\ wk' = [wk EXCEPT ![w].ci = @ + 1,
                                   ![w].pc = IF wk[w].ci + 1 > Len(wk[w].insertedChunks)
                                             THEN "mark_structured" ELSE "embed"]
          ELSE /\ wk' = [wk EXCEPT ![w] = Caught(w, StoreErrorMessage)]
               /\ UNCHANGED chunkEmbeddings
    /\ UNCHANGED <<now, ingestionJobs, uploadedDocuments, documentChunks, api,
                   overlapped, requested, returned, structurerProvider, isShuttingDown>>

\* Faulty variant: the job goes back to processing_structure for the next document.
MarkStructuredResetsJob(w) ==
    /\ wk[w].pc = "mark_structured"
    /\ markDocumentStructuredStatus(CurrentDocument(w), "structured", NULL)
    /\ setJobStatus(wk[w].jobId, "processing_structure", NULL)
    /\ wk' = [wk EXCEPT ![w].di = @ + 1, ![w].insertedChunks = << >>, ![w].ci = 0,
                        ![w].pc = NextDocumentPc(wk[w].documents, wk[w].di + 1)]
    /\ UNCHANGED <<now, documentChunks, chunkEmbeddings, api,
                   overlapped, requested, returned, structurerProvider, isShuttingDown>>

\* await markDocumentStructuredStatus(document.id, 'structured')
MarkStructured(w) ==
    /\ wk[w].pc = "mark_structured"
    /\ markDocumentStructuredStatus(CurrentDocument(w), "structured", NULL)
    /\ wk' = [wk EXCEPT ![w].di = @ + 1, ![w].insertedChunks = << >>, ![w].ci = 0,
                        ![w].pc = NextDocumentPc(wk[w].documents, wk[w].di + 1)]
    /\ UNCHANGED <<now, ingestionJobs, documentChunks, chunkEmbeddings, api,
                   overlapped, requested, returned, structurerProvider, isShuttingDown>>

\* await setJobStatus(jobId, 'completed', null); the tick ends.
SetCompleted(w) ==
    /\ wk[w].pc = "set_completed"
    /\ setJobStatus(wk[w].jobId, "completed", NULL)
    /\ wk' = [wk EXCEPT ![w] = IdleWorker]
    /\ UNCHANGED <<now, uploadedDocuments, documentChunks, chunkEmbeddings, api,
                   overlapped, requested, returned, structurerProvider, isShuttingDown>>

\* An awaited call inside the try block rejects before it has written anything
\* (file read, embedder, store): control passes to the catch block.
ThrowingPcs == {"get_documents", "mark_processing", "structure",
                "set_processing_embeddings", "embed", "mark_structured", "set_completed"}

ErrorMessageAt(pc) == IF pc = "embed" THEN EmbedErrorMessage ELSE StoreErrorMessage

\* Faulty variant: an exception in the embedding loop marks the document failed.
ProcessorThrowsMarksDocument(w) ==
    /\ wk[w].pc \in ThrowingPcs
    /\ wk' = [wk EXCEPT ![w] = Caught(w, ErrorMessageAt(wk[w].pc))]
    /\ overlapped' = [overlapped EXCEPT ![w] = {}]
    /\ uploadedDocuments' =
         IF wk[w].pc = "embed"
         THEN [uploadedDocuments EXCEPT ![CurrentDocument(w)].structured_status = "failed"]
         ELSE uploadedDocuments
    /\ UNCHANGED <<now, ingestionJobs, documentChunks, chunkEmbeddings,
                   api, requested, returned, structurerProvider, isShuttingDown>>

ProcessorThrows(w) ==
    /\ wk[w].pc \in ThrowingPcs
    /\ wk' = [wk EXCEPT ![w] = Caught(w, ErrorMessageAt(wk[w].pc))]
    /\ overlapped' = [overlapped EXCEPT ![w] = {}]
    /\ UNCHANGED <<now, ingestionJobs, uploadedDocuments, documentChunks, chunkEmbeddings,
                   api, requested, returned, structurerProvider, isShuttingDown>>

\* The final status write is applied by the store but its await rejects (the
\* connection drops after the commit): control passes to the catch block.
SetCompletedThrowsAfterWrite(w) ==
    /\ wk[w].pc = "set_completed"
    /\ setJobStatus(wk[w].jobId, "completed", NULL)
    /\ wk' = [wk EXCEPT ![w] = Caught(w, StoreErrorMessage)]
    /\ UNCHANGED <<now, uploadedDocuments, documentChunks, chunkEmbeddings, api,
                   overlapped, requested, returned, structurerProvider, isShuttingDown>>

(***************************************************************************)
(* queue.ts setJobFailedWithRetry, called from the processor's catch block.*)
(***************************************************************************)
\* The SELECT of the job row; a missing row ends the call (and the tick).
FailedSelect(w) ==
    /\ wk[w].pc = "failed_select"
    /\ IF wk[w].jobId \in JobRows
       THEN wk' = [wk EXCEPT ![w].pc = "failed_update",
                             ![w].job = [attempt_count |-> ingestionJobs[wk[w].jobId].attempt_count,
                                         max_attempts |-> ingestionJobs[wk[w].jobId].max_attempts]]
       ELSE wk' = [wk EXCEPT ![w] = IdleWorker]
    /\ UNCHANGED <<now, ingestionJobs, uploadedDocuments, documentChunks, chunkEmbeddings,
                   api, overlapped, requested, returned, structurerProvider, isShuttingDown>>

\* Faulty variant: re-queueing counts as an attempt.
FailedUpdateCountsAttempt(w) ==
    /\ wk[w].pc = "failed_update"
    /\ LET j == wk[w].jobId
           job == wk[w].job
       IN IF ~attemptsLeft(job)
          THEN ingestionJobs' = [ingestionJobs EXCEPT ![j].status = "failed",
                                                      ![j].error = wk[w].message]
          ELSE ingestionJobs' = [ingestionJobs EXCEPT ![j].status = "queued",
                                                      ![j].error = wk[w].message,
                                                      ![j].attempt_count = @ + 1,
                                                      ![j].next_run_at =
                                                          now + backoffMs(job.attempt_count)]
    /\ wk' = [wk EXCEPT ![w] = IdleWorker]
    /\ UNCHANGED <<now, uploadedDocuments, documentChunks, chunkEmbeddings, api,
                   overlapped, requested, returned, structurerProvider, isShuttingDown>>

\* The UPDATE: failed without attempts left, otherwise queued with a backoff.
FailedUpdate(w) ==
    /\ wk[w].pc = "failed_update"
    /\ LET j == wk[w].jobId
           job == wk[w].job
       IN IF ~attemptsLeft(job)
          THEN ingestionJobs' = [ingestionJobs EXCEPT ![j].status = "failed",
                                                      ![j].error = wk[w].message]
          ELSE ingestionJobs' = [ingestionJobs EXCEPT ![j].status = "queued",
                                                      ![j].error = wk[w].message,
                                                      ![j].next_run_at =
                                                          now + backoffMs(job.attempt_count)]
    /\ wk' = [wk EXCEPT ![w] = IdleWorker]
    /\ UNCHANGED <<now, uploadedDocuments, documentChunks, chunkEmbeddings, api,
                   overlapped, requested, returned, structurerProvider, isShuttingDown>>

(***************************************************************************)
(* A store call outside the processor's try block rejects: the exception   *)
(* reaches runTick, whose catch block logs it (a transient                 *)
(* database-not-ready error as a warning, once) and whose finally block    *)
(* ends the tick.  Neither block awaits, so this is one step.              *)
(***************************************************************************)
\* The candidate SELECT of claimNextQueuedJob rejects.
ClaimSelectThrows(w, error) ==
    /\ TimerInstalled(w)
    /\ TickGuard(w)
    /\ wk' = [wk EXCEPT ![w] = IdleWorker]
    /\ overlapped' = [overlapped EXCEPT ![w] = {}]
    /\ UNCHANGED <<now, ingestionJobs, uploadedDocuments, documentChunks, chunkEmbeddings,
                   api, requested, returned, structurerProvider, isShuttingDown>>

\* The conditional UPDATE of claimNextQueuedJob rejects before it has written.
ClaimUpdateThrows(w, error) ==
    /\ wk[w].pc = "claim_update"
    /\ wk' = [wk EXCEPT ![w] = IdleWorker]
    /\ overlapped' = [overlapped EXCEPT ![w] = {}]
    /\ UNCHANGED <<now, ingestionJobs, uploadedDocuments, documentChunks, chunkEmbeddings,
                   api, requested, returned, structurerProvider, isShuttingDown>>

\* Faulty variant: runTick without its finally block, the flag stays set.
FailedWithRetryThrowsNoFinally(w, error) ==
    /\ wk[w].pc \in {"failed_select", "failed_update"}
    /\ wk' = [wk EXCEPT ![w] = [IdleWorker EXCEPT !.isTickRunning = TRUE]]
    /\ UNCHANGED <<now, ingestionJobs, uploadedDocuments, documentChunks, chunkEmbeddings,
                   api, overlapped, requested, returned, structurerProvider, isShuttingDown>>

\* A statement of setJobFailedWithRetry rejects before it has written: the
\* exception leaves the catch block of processIngestionJob, whose promise rejects.
FailedWithRetryThrows(w, error) ==
    /\ wk[w].pc \in {"failed_select", "failed_update"}
    /\ wk' = [wk EXCEPT ![w] = IdleWorker]
    /\ UNCHANGED <<now, ingestionJobs, uploadedDocuments, documentChunks, chunkEmbeddings,
                   api, overlapped, requested, returned, structurerProvider, isShuttingDown>>

(***************************************************************************)
(* worker: shutdown(signal), the handler of SIGINT and SIGTERM.            *)
(***************************************************************************)
Shutdown(w) ==
    /\ isShuttingDown' = [isShuttingDown EXCEPT ![w] = TRUE]
    /\ UNCHANGED <<now, ingestionJobs, uploadedDocuments, documentChunks, chunkEmbeddings,
                   api, wk, overlapped, requested, returned, structurerProvider>>

(***************************************************************************)
(* The specification.                                                      *)
(***************************************************************************)
Next ==
    \/ ClockTick
    \/ EnqueueInsertJob
    \/ EnqueueInsertDocuments
    \/ EnqueueInsertDocumentsThrows
    \/ \E w \in Workers :
         \/ RunTick(w)
         \/ RunTickWhileRunning(w)
         \/ ClaimUpdate(w)
         \/ GetDocuments(w)
         \/ MarkProcessing(w)
         \/ StructureUnsupported(w)
         \/ StructureFailed(w)
         \/ StructureInsertChunks(w)
         \/ SetProcessingEmbeddings(w)
         \/ EmbedChunk(w)
         \/ MarkStructured(w)
         \/ SetCompleted(w)
         \/ ProcessorThrows(w)
         \/ SetCompletedThrowsAfterWrite(w)
         \/ FailedSelect(w)
         \/ FailedUpdate(w)
         \/ \E error \in StoreErrors :
              \/ ClaimSelectThrows(w, error)
              \/ ClaimUpdateThrows(w, error)
              \/ FailedWithRetryThrows(w, error)

Spec == Init /\ [][Next]_vars

\* The steps of a tick of worker w that return normally.
WorkerStep(w) ==
    \/ RunTick(w)
    \/ ClaimUpdate(w)
    \/ GetDocuments(w)
    \/ MarkProcessing(w)
    \/ StructureUnsupported(w)
    \/ StructureFailed(w)
    \/ StructureInsertChunks(w)
    \/ SetProcessingEmbeddings(w)
    \/ EmbedChunk(w)
    \/ MarkStructured(w)
    \/ SetCompleted(w)
    \/ FailedSelect(w)
    \/ FailedUpdate(w)

\* setInterval keeps calling runTick and every awaited call of a tick returns or
\* throws; time passes; the enqueue call in flight finishes.
Fairness ==
    /\ WF_vars(ClockTick)
    /\ WF_vars(EnqueueInsertDocuments)
    /\ \A w \in Workers : SF_vars(WorkerStep(w))

FairSpec == Init /\ [][Next]_vars /\ Fairness

\* The same with the worker processes receiving SIGINT / SIGTERM at any moment.
ShutdownNext == Next \/ \E w \in Workers : Shutdown(w)

ShutdownSpec == Init /\ [][ShutdownNext]_vars

(***************************************************************************)
(* setJobFailedWithRetry on its own: a worker's catch block calls it for a *)
(* claimed job whose row holds any attempt_count.                          *)
(***************************************************************************)
BackoffInit ==
    /\ now = 0
    /\ \E n \in 0..MaxAttemptCount : \E m \in {DEFAULT_MAX_ATTEMPTS, n + 1} :
         ingestionJobs = 1 :> [status |-> "processing_embeddings", attempt_count |-> n,
                               max_attempts |-> m, next_run_at |-> 0,
                               error |-> NULL, created_at |-> 0]
    /\ uploadedDocuments = << >>
    /\ documentChunks = {}
    /\ chunkEmbeddings = {}
    /\ api = IdleApi
    /\ \E w \in Workers : \E message \in {EmbedErrorMessage, StoreErrorMessage} :
         wk = [v \in Workers |->
                 IF v = w
                 THEN [IdleWorker EXCEPT !.pc = "failed_select", !.isTickRunning = TRUE,
                                         !.jobId = 1, !.message = message]
                 ELSE IdleWorker]
    /\ overlapped = [w \in Workers |-> {}]
    /\ requested = 1 :> << >>
    /\ returned = 1 :> {}
    /\ structurerProvider \in StructurerProviders
    /\ isShuttingDown = [w \in Workers |-> FALSE]

BackoffNext == \E w \in Workers : FailedSelect(w) \/ FailedUpdate(w)

BackoffSpec == BackoffInit /\ [][BackoffNext]_vars

(***************************************************************************)
(* claimNextQueuedJob on its own: one worker, no competitor, a table of    *)
(* jobs in the states the pipeline leaves them in.                         *)
(***************************************************************************)
ClaimNow == 2 * ClockStepMs

\* Rows of a job created at createdAt: fresh, re-queued and backing off, re-queued
\* and due, in processing, completed, failed after its last attempt.
ClaimJobRows(createdAt) ==
    {[status |-> "queued", attempt_count |-> 0, max_attempts |-> DEFAULT_MAX_ATTEMPTS,
      next_run_at |-> createdAt, error |-> NULL, created_at |-> createdAt],
     [status |-> "queued", attempt_count |-> 1, max_attempts |-> DEFAULT_MAX_ATTEMPTS,
      next_run_at |-> ClaimNow + backoffMs(1), error |-> EmbedErrorMessage,
      created_at |-> createdAt],
     [status |-> "queued", attempt_count |-> 2, max_attempts |-> DEFAULT_MAX_ATTEMPTS,
      next_run_at |-> ClaimNow, error |-> StoreErrorMessage, created_at |-> createdAt],
     [status |-> "processing_structure", attempt_count |-> 1,
      max_attempts |-> DEFAULT_MAX_ATTEMPTS, next_run_at |-> createdAt, error |-> NULL,
      created_at |-> createdAt],
     [status |-> "completed", attempt_count |-> 1, max_attempts |-> DEFAULT_MAX_ATTEMPTS,
      next_run_at |-> createdAt, error |-> NULL, created_at |-> createdAt],
     [status |-> "failed", attempt_count |-> DEFAULT_MAX_ATTEMPTS,
      max_attempts |-> DEFAULT_MAX_ATTEMPTS, next_run_at |-> ClaimNow,
      error |-> EmbedErrorMessage, created_at |-> createdAt]}

\* created_at of the rows: enqueue calls in the same or in different milliseconds.
ClaimCreatedAts == 0..2

Claimer == CHOOSE w \in Workers : TRUE

ClaimInit ==
    /\ now = ClaimNow
    /\ ingestionJobs \in [1..ClaimJobs -> UNION {ClaimJobRows(c) : c \in ClaimCreatedAts}]
    /\ uploadedDocuments = << >>
    /\ documentChunks = {}
    /\ chunkEmbeddings = {}
    /\ api = IdleApi
    /\ wk = [w \in Workers |-> IdleWorker]
    /\ overlapped = [w \in Workers |-> {}]
    /\ requested = [j \in 1..ClaimJobs |-> << >>]
    /\ returned = [j \in 1..ClaimJobs |-> {}]
    /\ structurerProvider = DeterministicProvider
    /\ isShuttingDown = [w \in Workers |-> FALSE]

ClaimNext == RunTick(Claimer) \/ ClaimUpdate(Claimer)

ClaimSpec == ClaimInit /\ [][ClaimNext]_vars

(***************************************************************************)
(* insertDocumentChunks on its own: a call with any chunk list, as a       *)
(* provider behind the DocumentStructurer interface may return it.         *)
(***************************************************************************)
ChunkIndexInputs == {0, 1, 2, 10}

ChunkInputs ==
    UNION {[1..n -> [chunkIndex : ChunkIndexInputs, text : {"a | b", "1 | 2"}]] :
             n \in 0..MaxChunks}

\* The worker holds a claimed job and is about to call insertDocumentChunks for
\* its document; insertedChunks holds the argument of the call.
InsertChunksInit ==
    /\ now = 0
    /\ ingestionJobs = 1 :> [status |-> "processing_structure", attempt_count |-> 1,
                            max_attempts |-> DEFAULT_MAX_ATTEMPTS, next_run_at |-> 0,
                            error |-> NULL, created_at |-> 0]
    /\ uploadedDocuments = <<1, 1>> :> [job_id |-> 1, file |-> CsvRows,
                                        structured_status |-> "processing",
                                        error |-> NULL, created_at |-> 0]
    /\ documentChunks = {}
    /\ chunkEmbeddings = {}
    /\ api = IdleApi
    /\ \E chunks \in ChunkInputs :
         wk = [v \in Workers |->
                 IF v = Claimer
                 THEN [IdleWorker EXCEPT !.pc = "insert_chunks", !.isTickRunning = TRUE,
                                         !.jobId = 1, !.documents = <<<<1, 1>>>>,
                                         !.di = 1, !.insertedChunks = chunks]
                 ELSE IdleWorker]
    /\ overlapped = [w \in Workers |-> {}]
    /\ requested = 1 :> <<CsvRows>>
    /\ returned = 1 :> {<<<<1, 1>>>>}
    /\ structurerProvider = DeterministicProvider
    /\ isShuttingDown = [w \in Workers |-> FALSE]

\* const insertedChunks = await insertDocumentChunks(document.id, chunks)
InsertChunksCall(w) ==
    /\ wk[w].pc = "insert_chunks"
    /\ LET rows == insertDocumentChunks(CurrentDocument(w), wk[w].insertedChunks)
       IN /\ documentChunks' = documentChunks \cup {rows[i] : i \in DOMAIN rows}
          /\ wk' = [wk EXCEPT ![w].insertedChunks = rows,
                              ![w].pc = "set_processing_embeddings"]
    /\ UNCHANGED <<now, ingestionJobs, uploadedDocuments, chunkEmbeddings, api,
                   overlapped, requested, returned, structurerProvider, isShuttingDown>>

InsertChunksNext == InsertChunksCall(Claimer)

InsertChunksSpec == InsertChunksInit /\ [][InsertChunksNext]_vars

(***************************************************************************)
(* OllamaDocumentStructurer.structure on its own: a call for any file,     *)
(* the model answering anything for each segment of its text.              *)
(***************************************************************************)
StructureInit ==
    /\ now = 0
    /\ ingestionJobs = 1 :> [status |-> "processing_structure", attempt_count |-> 1,
                            max_attempts |-> DEFAULT_MAX_ATTEMPTS, next_run_at |-> 0,
                            error |-> NULL, created_at |-> 0]
    /\ \E file \in Files \cup {MissingExe, MissingTxt} :
         /\ uploadedDocuments = <<1, 1>> :> [job_id |-> 1, file |-> file,
                                             structured_status |-> "processing",
                                             error |-> NULL, created_at |-> 0]
         /\ requested = 1 :> <<file>>
    /\ documentChunks = {}
    /\ chunkEmbeddings = {}
    /\ api = IdleApi
    /\ \E raws \in UNION {[1..n -> SegmentOutputs] : n \in 1..MaxSegments} :
         wk = [v \in Workers |->
                 IF v = Claimer
                 THEN [IdleWorker EXCEPT !.pc = "structure_call", !.isTickRunning = TRUE,
                                         !.jobId = 1, !.documents = <<<<1, 1>>>>,
                                         !.di = 1, !.raws = raws]
                 ELSE IdleWorker]
    /\ overlapped = [w \in Workers |-> {}]
    /\ returned = 1 :> {<<<<1, 1>>>>}
    /\ structurerProvider = OllamaProvider
    /\ isShuttingDown = [w \in Workers |-> FALSE]

\* const structured = await structurer.structure(document.stored_path, ...)
StructureCall(w) ==
    /\ wk[w].pc = "structure_call"
    /\ wk' = [wk EXCEPT ![w].structured =
                           ollamaStructureSegments(uploadedDocuments[CurrentDocument(w)].file,
                                                   wk[w].raws),
                        ![w].pc = "structure_returned"]
    /\ UNCHANGED <<now, ingestionJobs, uploadedDocuments, documentChunks, chunkEmbeddings,
                   api, overlapped, requested, returned, structurerProvider, isShuttingDown>>

StructureNext == StructureCall(Claimer)

StructureSpec == StructureInit /\ [][StructureNext]_vars

(***************************************************************************)
(* Worker processes from their start: startWorker validates the provider   *)
(* configuration before it installs the timer.  The environment the        *)
(* configuration is read from can be changed while no tick is running.     *)
(***************************************************************************)
\* Faulty variant: the timer is installed whatever the validation says.
StartWorkerIgnoresError(w) ==
    /\ wk[w].pc = "starting"
    /\ wk' = [wk EXCEPT ![w].pc = "idle"]
    /\ UNCHANGED <<now, ingestionJobs, uploadedDocuments, documentChunks, chunkEmbeddings,
                   api, overlapped, requested, returned, structurerProvider, isShuttingDown>>

\* startWorker: logProviderConfiguration() throws and the function returns, or
\* the timer is installed.
StartWorker(w) ==
    /\ wk[w].pc = "starting"
    /\ wk' = [wk EXCEPT ![w].pc = IF ConfigValid THEN "idle" ELSE "exited"]
    /\ UNCHANGED <<now, ingestionJobs, uploadedDocuments, documentChunks, chunkEmbeddings,
                   api, overlapped, requested, returned, structurerProvider, isShuttingDown>>

\* DOCUMENT_STRUCTURER_PROVIDER is set to another value.
SetEnv ==
    /\ \A w \in Workers : wk[w].pc \in {"starting", "exited", "idle"}
    /\ \E provider \in StructurerProviders \cup {OpenCodeZenProvider} :
         /\ provider # structurerProvider
         /\ structurerProvider' = provider
    /\ UNCHANGED <<now, ingestionJobs, uploadedDocuments, documentChunks, chunkEmbeddings,
                   api, wk, overlapped, requested, returned, isShuttingDown>>

StartupInit ==
    /\ now = 0
    /\ ingestionJobs = 1 :> [status |-> "queued", attempt_count |-> 0,
                            max_attempts |-> DEFAULT_MAX_ATTEMPTS, next_run_at |-> 0,
                            error |-> NULL, created_at |-> 0]
    /\ \E file \in {CsvRows, PdfFile} :
         /\ uploadedDocuments = <<1, 1>> :> [job_id |-> 1, file |-> file,
                                             structured_status |-> "pending",
                                             error |-> NULL, created_at |-> 0]
         /\ requested = 1 :> <<file>>
    /\ documentChunks = {}
    /\ chunkEmbeddings = {}
    /\ api = IdleApi
    /\ wk = [w \in Workers |-> [IdleWorker EXCEPT !.pc = "starting"]]
    /\ overlapped = [w \in Workers |-> {}]
    /\ returned = 1 :> {}
    /\ structurerProvider \in StructurerProviders \cup {OpenCodeZenProvider}
    /\ isShuttingDown = [w \in Workers |-> FALSE]

StartupNext ==
    \/ ClockTick
    \/ SetEnv
    \/ \E w \in Workers :
         \/ StartWorker(w)
         \/ RunTick(w)
         \/ RunTickWhileRunning(w)
         \/ ClaimUpdate(w)
         \/ ValidationFails(w)
         \/ GetDocuments(w)
         \/ MarkProcessing(w)
         \/ StructureUnsupported(w)
         \/ StructureFailed(w)
         \/ StructureInsertChunks(w)
         \/ SetProcessingEmbeddings(w)
         \/ EmbedChunk(w)
         \/ MarkStructured(w)
         \/ SetCompleted(w)
         \/ ProcessorThrows(w)
         \/ SetCompletedThrowsAfterWrite(w)
         \/ FailedSelect(w)
         \/ FailedUpdate(w)
         \/ \E error \in StoreErrors :
              \/ ClaimSelectThrows(w, error)
              \/ ClaimUpdateThrows(w, error)
              \/ FailedWithRetryThrows(w, error)

StartupSpec == StartupInit /\ [][StartupNext]_vars

(***************************************************************************)
(* Worker processes that die in the middle of a tick and are started       *)
(* again: the module state of worker.ts and the locals of the tick are     *)
(* lost, the tables stay as they are.                                      *)
(***************************************************************************)
Crash(w) ==
    /\ wk[w].pc # "idle"
    /\ wk' = [wk EXCEPT ![w] = IdleWorker]
    /\ overlapped' = [overlapped EXCEPT ![w] = {}]
    /\ UNCHANGED <<now, ingestionJobs, uploadedDocuments, documentChunks, chunkEmbeddings,
                   api, requested, returned, structurerProvider, isShuttingDown>>

CrashNext == Next \/ \E w \in Workers : Crash(w)

CrashSpec == Init /\ [][CrashNext]_vars

(***************************************************************************)
(* The workers on one enqueued job of two documents, at least one of them  *)
(* a CSV file: every tick, attempt and retry of that job.                  *)
(***************************************************************************)
TwoDocumentUploads == {<<CsvBlank, CsvRows>>, <<PdfFile, CsvRows>>}

TwoDocInit ==
    /\ now = 0
    /\ ingestionJobs = 1 :> [status |-> "queued", attempt_count |-> 0,
                            max_attempts |-> DEFAULT_MAX_ATTEMPTS, next_run_at |-> 0,
                            error |-> NULL, created_at |-> 0]
    /\ \E uploadedFiles \in TwoDocumentUploads :
         /\ uploadedDocuments =
              [k \in {<<1, i>> : i \in 1..Len(uploadedFiles)} |->
                 [job_id |-> 1, file |-> uploadedFiles[k[2]],
                  structured_status |-> "pending", error |-> NULL, created_at |-> 0]]
         /\ requested = 1 :> uploadedFiles
    /\ documentChunks = {}
    /\ chunkEmbeddings = {}
    /\ api = IdleApi
    /\ wk = [w \in Workers |-> IdleWorker]
    /\ overlapped = [w \in Workers |-> {}]
    /\ returned = 1 :> {}
    /\ structurerProvider \in StructurerProviders
    /\ isShuttingDown = [w \in Workers |-> FALSE]

TwoDocNext ==
    \/ ClockTick
    \/ \E w \in Workers :
         \/ RunTick(w)
         \/ RunTickWhileRunning(w)
         \/ ClaimUpdate(w)
         \/ GetDocuments(w)
         \/ MarkProcessing(w)
         \/ StructureUnsupported(w)
         \/ StructureFailed(w)
         \/ StructureInsertChunks(w)
         \/ SetProcessingEmbeddings(w)
         \/ EmbedChunk(w)
         \/ MarkStructured(w)
         \/ SetCompleted(w)
         \/ ProcessorThrows(w)
         \/ SetCompletedThrowsAfterWrite(w)
         \/ FailedSelect(w)
         \/ FailedUpdate(w)
         \/ \E error \in StoreErrors :
              \/ ClaimSelectThrows(w, error)
              \/ ClaimUpdateThrows(w, error)
              \/ FailedWithRetryThrows(w, error)

TwoDocSpec == TwoDocInit /\ [][TwoDocNext]_vars

(***************************************************************************)
(* Properties.                                                             *)
(***************************************************************************)
TerminalJobStatuses == {"completed", "failed"}
ProcessingJobStatuses == {"processing_structure", "processing_embeddings"}
TerminalDocumentStatuses == {"structured", "unsupported", "failed"}

DocumentsOf(j) == {d \in DocRows : uploadedDocuments[d].job_id = j}

\* Worker w is inside processIngestionJob(j): after its claim of j, up to its last
\* status write for the attempt.
Holds(w, j) == wk[w].pc \notin {"idle", "claim_update"} /\ wk[w].jobId = j

\* C1: no two overlapping claimNextQueuedJob calls return the same job: a call
\* that returns job j (the worker is at the start of processIngestionJob) has not
\* overlapped another call that returned j.
C1_OverlappingClaimsDistinct ==
    \A w \in Workers :
        wk[w].pc = "get_documents" => wk[w].jobId \notin overlapped[w]

\* C2: at most one worker is inside processIngestionJob for a job at any time, and
\* while one is, the job is not queued, so no other worker's claim returns it.
C2_SingleWorkerPerJob ==
    \A j \in JobRows :
        /\ Cardinality({w \in Workers : Holds(w, j)}) <= 1
        /\ (\E w \in Workers : Holds(w, j)) => ingestionJobs[j].status # "queued"

\* C2 witness: a worker is processing a job in a processing status while another
\* worker's conditional UPDATE for the same (stale) candidate is pending.
C2_Witness ==
    \E j \in JobRows : \E w1 \in Workers : \E w2 \in Workers \ {w1} :
        /\ Holds(w1, j)
        /\ ingestionJobs[j].status \in ProcessingJobStatuses
        /\ wk[w2].pc = "claim_update"
        /\ wk[w2].candidateJob = j

\* C3: attempt_count never exceeds max_attempts.
C3_AttemptCountBounded ==
    \A j \in JobRows : ingestionJobs[j].attempt_count <= ingestionJobs[j].max_attempts

\* C3 witness: a job has used all its attempts and is queued no more while a worker
\* still holds it as the stale candidate of a pending conditional UPDATE.
C3_Witness ==
    \E j \in JobRows : \E w \in Workers :
        /\ ingestionJobs[j].attempt_count = ingestionJobs[j].max_attempts
        /\ wk[w].pc = "claim_update"
        /\ wk[w].candidateJob = j

\* C4: a job whose status is completed or failed keeps that status in every step.
C4_TerminalStatusIsFinal ==
    [][\A j \in JobRows :
          ingestionJobs[j].status \in TerminalJobStatuses
              => ingestionJobs'[j].status = ingestionJobs[j].status]_vars

\* C5: every document of a completed or failed job has a terminal
\* structured_status.
C5_TerminalJobDocumentsTerminal ==
    \A j \in JobRows :
        ingestionJobs[j].status \in TerminalJobStatuses
            => \A d \in DocumentsOf(j) :
                   uploadedDocuments[d].structured_status \in TerminalDocumentStatuses

\* C6: enqueue is atomic: whenever a job row exists, all the document rows its
\* enqueue call was given exist too.
C6_EnqueueAtomic ==
    \A j \in JobRows : Cardinality(DocumentsOf(j)) = Len(requested[j])

\* C7: a structured document has at least one chunk, and each of its chunk rows
\* has exactly one embedding row for the embedding model.
C7_StructuredHasEmbeddedChunks ==
    \A d \in DocRows :
        uploadedDocuments[d].structured_status = "structured"
            => /\ ChunksOf(d) # {}
               /\ \A c \in ChunksOf(d) :
                      Cardinality({e \in EmbeddingsOf(c) :
                                      e.embedding_model = EmbeddingModel}) = 1

\* C8: the chunk_index values of a document's chunk rows are exactly 0..k-1, each
\* occurring once.
C8_ChunkIndexDense ==
    \A d \in DocRows :
        \A i \in 0..(Cardinality(ChunksOf(d)) - 1) :
            Cardinality({c \in ChunksOf(d) : c.chunk_index = i}) = 1

\* C9: retry idempotence: however many attempts a completed job took, each of its
\* structured documents has as many chunk rows as one run of the structurer
\* yields, each with exactly one embedding.
C9_RetryIdempotent ==
    \A d \in DocRows :
        (/\ structurerProvider = DeterministicProvider
         /\ ingestionJobs[uploadedDocuments[d].job_id].status = "completed"
         /\ uploadedDocuments[d].structured_status = "structured")
            => /\ Cardinality(ChunksOf(d)) = Len(structure(uploadedDocuments[d].file).chunks)
               /\ \A c \in ChunksOf(d) : Cardinality(EmbeddingsOf(c)) = 1

\* C10: the UPDATE of setJobFailedWithRetry leaves the job queued with the message
\* and next_run_at > now if the row has attempts left, failed with the message
\* otherwise, and does not change attempt_count.
C10_FailWithRetryPostcondition ==
    [][\A w \in Workers :
          FailedUpdate(w)
              => LET j == wk[w].jobId
                     before == ingestionJobs[j]
                     after == ingestionJobs'[j]
                 IN /\ after.attempt_count = before.attempt_count
                    /\ after.error = wk[w].message
                    /\ before.attempt_count < before.max_attempts
                          => after.status = "queued" /\ after.next_run_at > now
                    /\ before.attempt_count >= before.max_attempts
                          => after.status = "failed"]_vars

\* C10 witness: a job re-queued by setJobFailedWithRetry after an embedder
\* exception, waiting for its backoff.
C10_Witness ==
    \E j \in JobRows :
        /\ ingestionJobs[j].status = "queued"
        /\ ingestionJobs[j].error = EmbedErrorMessage
        /\ ingestionJobs[j].attempt_count >= 1
        /\ ingestionJobs[j].next_run_at > now

\* 2^n * 1000 ms clamped to [5000, 60000].
ClampedDelay(n) ==
    LET raw == Pow2(n) * 1000
    IN IF raw < 5000 THEN 5000 ELSE IF raw > 60000 THEN 60000 ELSE raw

\* C11: the delay setJobFailedWithRetry applies for attempt_count n is 2^n * 1000 ms
\* clamped to [5000, 60000]: never below 5000, never above 60000, and not
\* decreasing in n.
C11_BackoffClamped ==
    [][\A w \in Workers :
          (FailedUpdate(w) /\ attemptsLeft(wk[w].job))
              => LET j == wk[w].jobId
                     n == wk[w].job.attempt_count
                     delay == ingestionJobs'[j].next_run_at - now
                 IN /\ delay = ClampedDelay(n)
                    /\ delay >= 5000
                    /\ delay <= 60000
                    /\ \A k \in 0..n : backoffMs(k) <= delay]_vars

\* C11 witness: a job re-queued with a delay strictly between the two clamps, and
\* the same for a delay cut at the upper clamp.
C11_Witness ==
    \E j \in JobRows :
        /\ ingestionJobs[j].status = "queued"
        /\ ingestionJobs[j].attempt_count >= 4
        /\ ingestionJobs[j].next_run_at - now
              \in {Pow2(ingestionJobs[j].attempt_count) * 1000, 60000}

\* The catch block's setJobFailedWithRetry writes the row of a job whose first
\* attempt ended with an exception of the embedding step.
FirstAttemptEmbedFailure(w) ==
    /\ FailedUpdate(w)
    /\ wk[w].message = EmbedErrorMessage
    /\ wk[w].job.attempt_count = 1

\* The final status write of a job's second attempt.
SecondAttemptSucceeds(w) ==
    /\ SetCompleted(w)
    /\ ingestionJobs[wk[w].jobId].attempt_count = 2

\* C12: when the embedder throws in a job's first attempt the job is re-queued with
\* attempt_count = 1 and next_run_at about now + 2 s (within a second of it); when
\* the second attempt succeeds the job ends completed with attempt_count = 2.
C12_TransientFailureThenSuccess ==
    [][\A w \in Workers :
          LET j == wk[w].jobId
          IN /\ FirstAttemptEmbedFailure(w)
                   => /\ ingestionJobs'[j].status = "queued"
                      /\ ingestionJobs'[j].attempt_count = 1
                      /\ ingestionJobs'[j].next_run_at - now \in 1001..2999
             /\ SecondAttemptSucceeds(w)
                   => /\ ingestionJobs'[j].status = "completed"
                      /\ ingestionJobs'[j].attempt_count = 2]_vars

\* C12 amended: as C12, with next_run_at = now + 5 s (the lower clamp of the
\* backoff), and the completed job's error cleared.
C12_Amended ==
    [][\A w \in Workers :
          LET j == wk[w].jobId
          IN /\ FirstAttemptEmbedFailure(w)
                   => /\ ingestionJobs'[j].status = "queued"
                      /\ ingestionJobs'[j].attempt_count = 1
                      /\ ingestionJobs'[j].error = EmbedErrorMessage
                      /\ ingestionJobs'[j].next_run_at = now + 5000
             /\ SecondAttemptSucceeds(w)
                   => /\ ingestionJobs'[j].status = "completed"
                      /\ ingestionJobs'[j].attempt_count = 2
                      /\ ingestionJobs'[j].error = NULL]_vars

\* C12 witness: a job completed by its second attempt, whose first attempt embedded
\* the first chunk of a document and threw at the second.
C12_Witness ==
    \E j \in JobRows : \E d \in DocumentsOf(j) :
        /\ ingestionJobs[j].status = "completed"
        /\ ingestionJobs[j].attempt_count = 2
        /\ \E c \in ChunksOf(d) : c.id[2] = 1 /\ c.id[3] = 1 /\ EmbeddingsOf(c) # {}
        /\ \E c \in ChunksOf(d) : c.id[2] = 1 /\ c.id[3] = 2 /\ EmbeddingsOf(c) = {}

\* The conditional UPDATE of worker w's claimNextQueuedJob returns a row.
ClaimSucceeds(w) == ClaimUpdate(w) /\ ClaimUpdateMatches(wk[w].candidateJob)

\* C13: a job is claimed at most max_attempts (3) times: every successful claim
\* finds attempt_count below 3 and leaves the number of claims so far; when the
\* embedder throws in the third attempt the job ends failed with attempt_count = 3;
\* and a failed job is never claimed again.
C13_ExhaustedRetries ==
    [][/\ \A w \in Workers :
            LET j == wk[w].candidateJob
            IN ClaimSucceeds(w)
                  => /\ ingestionJobs[j].attempt_count < DEFAULT_MAX_ATTEMPTS
                     /\ ingestionJobs'[j].attempt_count = ingestionJobs[j].attempt_count + 1
       /\ \A w \in Workers :
            LET j == wk[w].jobId
            IN (/\ FailedUpdate(w)
                /\ wk[w].message = EmbedErrorMessage
                /\ wk[w].job.attempt_count = DEFAULT_MAX_ATTEMPTS)
                  => /\ ingestionJobs'[j].status = "failed"
                     /\ ingestionJobs'[j].attempt_count = DEFAULT_MAX_ATTEMPTS
       /\ \A j \in JobRows :
            ingestionJobs[j].status = "failed"
                => /\ ingestionJobs'[j].status = "failed"
                   /\ ingestionJobs'[j].attempt_count = ingestionJobs[j].attempt_count
                   /\ \A w \in Workers : ~(ClaimSucceeds(w) /\ wk[w].candidateJob = j)]_vars

\* C13 witness: a job failed by an embedder exception in its third attempt, each
\* attempt having inserted the chunks of a document, while a worker still holds it
\* as the candidate of a pending conditional UPDATE.
C13_Witness ==
    \E j \in JobRows : \E w \in Workers : \E d \in DocumentsOf(j) :
        /\ ingestionJobs[j].status = "failed"
        /\ ingestionJobs[j].attempt_count = DEFAULT_MAX_ATTEMPTS
        /\ ingestionJobs[j].error = EmbedErrorMessage
        /\ {c.id[2] : c \in ChunksOf(d)} = 1..DEFAULT_MAX_ATTEMPTS
        /\ wk[w].pc = "claim_update"
        /\ wk[w].candidateJob = j

\* C14: the promise of processIngestionJob never rejects: no exception leaves its
\* catch handler, and every job in a processing status has a worker inside
\* processIngestionJob that will write it to queued, failed or completed.
C14_ProcessNeverThrows ==
    [][/\ \A w \in Workers : \A error \in StoreErrors : ~FailedWithRetryThrows(w, error)
       /\ \A j \in DOMAIN ingestionJobs' :
            ingestionJobs'[j].status \in ProcessingJobStatuses
                => \E w \in Workers : Holds(w, j)']_vars

\* The documents a worker inside the document loop (or past it) has finished.
DocumentLoopPcs == {"mark_processing", "structure", "set_processing_embeddings", "embed",
                    "mark_structured", "set_completed"}

ZeroChunksHandled(w) ==
    /\ structurerProvider = OllamaProvider
    /\ wk[w].pc = "structure"
    /\ wk'[w] # wk[w]
    /\ \E raw \in ModelOutputs :
         /\ raw.json /\ raw.hasChunksArray /\ normalizeChunks(raw.chunks).threw
         /\ structureDocument(CurrentDocument(w), raw).status = "failed"
         /\ \/ uploadedDocuments'[CurrentDocument(w)].error = ZeroChunksMessage
            \/ wk'[w].message = ZeroChunksMessage

\* C16: when the remote structurer's normalization yields zero chunks the
\* structuring call is marked failed and the job is routed to setJobFailedWithRetry.
C16_ZeroChunksFailsWithRetry ==
    [][\A w \in Workers :
          ZeroChunksHandled(w)
              => /\ uploadedDocuments'[CurrentDocument(w)].structured_status = "failed"
                 /\ wk'[w].pc = "failed_select"]_vars

\* C16 amended: the document is marked failed with the structurer's error and the
\* processor goes on to the next document or to the final status write; the job
\* row is not written and setJobFailedWithRetry is not called.
C16_Amended ==
    [][\A w \in Workers :
          ZeroChunksHandled(w)
              => /\ uploadedDocuments'[CurrentDocument(w)].structured_status = "failed"
                 /\ uploadedDocuments'[CurrentDocument(w)].error = ZeroChunksMessage
                 /\ wk'[w].pc = NextDocumentPc(wk[w].documents, wk[w].di + 1)
                 /\ ingestionJobs' = ingestionJobs]_vars

\* C16 witness: a job completed by its first attempt although the model's answer
\* for its document normalized to zero chunks.
C16_Witness ==
    \E j \in JobRows : \E d \in DocumentsOf(j) :
        /\ structurerProvider = OllamaProvider
        /\ ingestionJobs[j].status = "completed"
        /\ ingestionJobs[j].attempt_count = 1
        /\ uploadedDocuments[d].structured_status = "failed"
        /\ uploadedDocuments[d].error = ZeroChunksMessage

ChunksOfJob(j) == UNION {ChunksOf(d) : d \in DocumentsOf(j)}

\* C17: a job with an empty document list is completed by the tick that claims it:
\* the processor goes from loading the documents straight to the final status
\* write, the job never is in processing_embeddings and has no chunk or embedding
\* rows, and at the final write of a job that no attempt has failed before
\* (error = null) attempt_count = 1.
C17_EmptyJobCompletesInOneTick ==
    /\ \A w \in Workers :
          (wk[w].pc \in DocumentLoopPcs \cup {"set_processing_embeddings"}
           /\ wk[w].documents = << >>)
              => /\ wk[w].pc = "set_completed"
                 /\ ingestionJobs[wk[w].jobId].status = "processing_structure"
                 /\ ingestionJobs[wk[w].jobId].attempt_count >= 1
                 /\ ingestionJobs[wk[w].jobId].error = NULL
                       => ingestionJobs[wk[w].jobId].attempt_count = 1
    /\ \A j \in JobRows :
          requested[j] = << >>
              => /\ ingestionJobs[j].status # "processing_embeddings"
                 /\ DocumentsOf(j) = {}
                 /\ ChunksOfJob(j) = {}
                 /\ \A e \in chunkEmbeddings : e.chunk_id[1][1] # j
                 /\ ingestionJobs[j].status = "completed"
                       => ingestionJobs[j].attempt_count >= 1

\* C17 witness: a job enqueued without documents, completed with attempt_count = 1.
C17_Witness ==
    \E j \in JobRows :
        /\ requested[j] = << >>
        /\ ingestionJobs[j].status = "completed"
        /\ ingestionJobs[j].attempt_count = 1
        /\ \A w \in Workers : wk[w].pc = "idle"

\* The steps of a tick body of worker w, once the tick has passed its guard.
TickStep(w) ==
    \/ ClaimUpdate(w) \/ GetDocuments(w) \/ MarkProcessing(w) \/ StructureUnsupported(w)
    \/ StructureFailed(w) \/ StructureInsertChunks(w) \/ SetProcessingEmbeddings(w)
    \/ EmbedChunk(w) \/ MarkStructured(w) \/ SetCompleted(w) \/ FailedSelect(w)
    \/ FailedUpdate(w)

\* A timer firing of worker w that goes on to claimNextQueuedJob.
TickStarts(w) == RunTick(w) \/ \E error \in StoreErrors : ClaimSelectThrows(w, error)

\* C18: within a worker process at most one tick body executes: while a tick body
\* is executing (awaiting claimNextQueuedJob or processIngestionJob) isTickRunning
\* is set and a timer firing cannot start another one, it can only return at the
\* guard; so the process holds at most one claimed, unfinished job.
C18_OneTickAtATime ==
    \A w \in Workers :
        /\ wk[w].pc # "idle" => wk[w].isTickRunning
        /\ wk[w].isTickRunning
              => /\ ~ENABLED TickStarts(w)
                 /\ ENABLED RunTickWhileRunning(w)
        /\ Cardinality({j \in JobRows : Holds(w, j)}) <= 1

\* C18 witness: the timer of a worker process can fire (and return) while its tick
\* is awaiting inside the embedding loop of processIngestionJob.
C18_Witness ==
    \E w \in Workers : \E j \in JobRows :
        /\ Holds(w, j)
        /\ wk[w].pc = "embed"
        /\ wk[w].isTickRunning
        /\ ENABLED RunTickWhileRunning(w)

TickAbsorbsTransientError(w) ==
    \E error \in StoreErrors :
        /\ isTransientDatabaseNotReadyError(error)
        /\ \/ ClaimSelectThrows(w, error)
           \/ ClaimUpdateThrows(w, error)
           \/ FailedWithRetryThrows(w, error)

\* C20: a tick that ends by absorbing a transient database-not-ready error has
\* consumed no attempt: its claimNextQueuedJob has returned no job (only a
\* successful claim changes attempt_count), and it leaves no job in a processing
\* status without a worker processing it.
C20_TransientErrorConsumesNoAttempt ==
    [][\A w \in Workers :
          TickAbsorbsTransientError(w)
              => /\ wk[w].jobId = 0
                 /\ \A j \in JobRows :
                        ingestionJobs'[j].status \in ProcessingJobStatuses
                            => \E v \in Workers \ {w} : Holds(v, j)]_vars

\* C21: a successful claim never moves a job out of queued before its next_run_at:
\* at the conditional UPDATE that claims it the row has next_run_at <= now.
C21_BackoffRespected ==
    [][\A w \in Workers :
          ClaimSucceeds(w) => ingestionJobs[wk[w].candidateJob].next_run_at <= now]_vars

\* The jobs that are queued, due and have attempts left, and none older is.
OldestEligible ==
    {j \in JobRows : /\ Eligible(j, now)
                     /\ \A k \in JobRows :
                          Eligible(k, now)
                              => ingestionJobs[j].created_at <= ingestionJobs[k].created_at}

\* C22: without a competitor claimNextQueuedJob returns a job of smallest
\* created_at among the queued, due jobs with attempts left: its candidate is such
\* a job, after the claim no other eligible job is older than the claimed one, and
\* whenever some job is eligible a tick finds a candidate, whatever older rows
\* that are backing off, in processing or terminal exist.
C22_ClaimsOldestEligible ==
    /\ wk[Claimer].pc = "claim_update" => wk[Claimer].candidateJob \in OldestEligible
    /\ wk[Claimer].pc = "get_documents"
          => /\ ingestionJobs[wk[Claimer].jobId].status = "processing_structure"
             /\ \A k \in JobRows :
                    Eligible(k, now)
                        => ingestionJobs[wk[Claimer].jobId].created_at
                               <= ingestionJobs[k].created_at
    /\ (wk[Claimer].pc = "idle" /\ OldestEligible # {})
          => ENABLED (RunTick(Claimer) /\ wk'[Claimer].pc = "claim_update")

\* C22 witness: the claimed job is younger than a queued job that is backing off
\* and younger than a job in processing, and another eligible job is younger still.
C22_Witness ==
    \E j \in JobRows : \E b \in JobRows : \E y \in JobRows :
        /\ wk[Claimer].pc = "get_documents"
        /\ wk[Claimer].jobId = j
        /\ ingestionJobs[b].status = "queued"
        /\ ingestionJobs[b].next_run_at > now
        /\ ingestionJobs[b].created_at < ingestionJobs[j].created_at
        /\ Eligible(y, now)
        /\ ingestionJobs[y].created_at > ingestionJobs[j].created_at

\* C23: getDocumentsForJob returns the documents of a job in the same order on
\* every call: any two results that hold the same documents, over all attempts of
\* the job, are the same sequence, also for documents inserted by one enqueue call
\* with one created_at.
C23_StableDocumentOrder ==
    \A j \in JobRows : \A s \in returned[j] : \A t \in returned[j] :
        Len(s) = Len(t) => s = t

\* C24: under fair scheduling of the worker ticks every enqueued job eventually
\* has a terminal status, completed or failed, whatever the structurer returns and
\* whichever embedder and store calls throw.
C24_EveryJobTerminates ==
    \A j \in JobIds :
        (j \in JobRows) ~> (j \in JobRows /\ ingestionJobs[j].status \in TerminalJobStatuses)

\* C25: insertDocumentChunks persists and returns one row per input chunk, in
\* input order, with chunk_index 0, 1, ..., k-1 whatever chunkIndex values the
\* input carries.
C25_InsertRenumbersDensely ==
    [][InsertChunksCall(Claimer)
         => LET chunks == wk[Claimer].insertedChunks
                rows == wk'[Claimer].insertedChunks
            IN /\ Len(rows) = Len(chunks)
               /\ \A i \in 1..Len(rows) :
                    /\ rows[i].chunk_index = i - 1
                    /\ rows[i].text = chunks[i].text
                    /\ rows[i] \in documentChunks']_vars

\* The entries of the model's answers that are objects with a string text of
\* more than white space, as <<segment, position>>.
AcceptedEntries(raws) ==
    {sk \in UNION {{<<s, k>> : k \in 1..Len(raws[s].chunks)} : s \in 1..Len(raws)} :
        LET entry == raws[sk[1]].chunks[sk[2]]
        IN /\ entry.object
           /\ entry.textIsString
           /\ \E c \in 1..Len(entry.text) : entry.text[c] # " "}

Contains(s, sub) ==
    \E i \in 1..(Len(s) - Len(sub) + 1) : SubSeq(s, i, i + Len(sub) - 1) = sub

\* Extracting the text, a model call, JSON parsing or chunk normalization throws
\* during structure(file, ...) with the model answering raws.
StructureRaises(file, raws) ==
    \/ ~file.readable
    \/ /\ DropBlank(file.lines) # << >>
       /\ \E s \in 1..Len(raws) :
            \/ raws[s].rejects
            \/ ~raws[s].json
            \/ ~raws[s].hasChunksArray
            \/ AcceptedEntries(<<raws[s]>>) = {}

Embedded(w) ==
    {i \in 1..Len(wk[w].insertedChunks) :
        \E e \in chunkEmbeddings : e.chunk_id = wk[w].insertedChunks[i].id}

\* What one step of worker w inside the document loop may write.
OrderedWrites(w) ==
    LET d == CurrentDocument(w)
        chunks == wk[w].insertedChunks
    IN /\ wk'[w].pc \in DocumentLoopPcs => wk'[w].di \in {wk[w].di, wk[w].di + 1}
       /\ \A x \in DocRows : uploadedDocuments'[x] # uploadedDocuments[x] => x = d
       /\ \A c \in documentChunks' \ documentChunks :
             /\ c.document_id = d
             /\ \A e \in chunkEmbeddings' : e.chunk_id # c.id
       /\ \A e \in chunkEmbeddings' \ chunkEmbeddings :
             /\ \A i \in 1..Len(chunks) : chunks[i] \in documentChunks
             /\ e.chunk_id = chunks[wk[w].ci].id
             /\ Embedded(w) = 1..(wk[w].ci - 1)
       /\ (uploadedDocuments'[d].structured_status = "structured"
             /\ uploadedDocuments[d].structured_status # "structured")
             => Embedded(w) = 1..Len(chunks)

\* C28: within one attempt the store writes are ordered: a step of the document
\* loop writes only to the current document, the loop moves to the next document
\* of the list only; all chunk rows of a document are inserted before its first
\* embedding row; embedding rows are inserted in chunk order; the document is set
\* to structured only when the embedding of its last chunk is persisted.
C28_WritesOrderedWithinAttempt ==
    [][\A w \in Workers :
          (wk[w].pc \in DocumentLoopPcs \ {"set_completed"} /\ wk'[w] # wk[w])
              => OrderedWrites(w)]_vars

\* C28 witness: the second document of the list has both its chunks embedded and
\* is about to be set to structured, the first document being done.
C28_Witness ==
    \E w \in Workers :
        /\ wk[w].pc = "mark_structured"
        /\ wk[w].di = 2
        /\ Len(wk[w].insertedChunks) = 2
        /\ Embedded(w) = {1, 2}
        /\ uploadedDocuments[wk[w].documents[1]].structured_status
              \in TerminalDocumentStatuses

\* The embedder or insertChunkEmbedding throws in the attempt of worker w.
EmbedThrows(w) ==
    /\ wk[w].pc = "embed"
    /\ wk'[w].pc = "failed_select"

\* C29: when the embedder or insertChunkEmbedding throws for a chunk the attempt
\* stops there: the throw and the failure handling after it write no document, no
\* chunk and no embedding, the current document keeps status processing, and the
\* job goes to setJobFailedWithRetry, which stores the exception message.
C29_EmbedThrowStopsAttempt ==
    [][\A w \in Workers :
          /\ EmbedThrows(w)
                => /\ UNCHANGED <<uploadedDocuments, documentChunks, chunkEmbeddings>>
                   /\ uploadedDocuments'[CurrentDocument(w)].structured_status = "processing"
                   /\ wk'[w].jobId = wk[w].jobId
                   /\ wk'[w].message \in {EmbedErrorMessage, StoreErrorMessage}
          /\ (wk[w].pc \in {"failed_select", "failed_update"} /\ wk'[w] # wk[w])
                => /\ UNCHANGED <<uploadedDocuments, documentChunks, chunkEmbeddings>>
                   /\ (wk[w].pc = "failed_update"
                         /\ ingestionJobs'[wk[w].jobId] # ingestionJobs[wk[w].jobId])
                         => ingestionJobs'[wk[w].jobId].error = wk[w].message]_vars

\* C29 witness: the embedder threw for the second chunk of the first document; its
\* first chunk has an embedding, its second has none, the document is in
\* processing, the next document is still pending, the worker is in the failure
\* handling with the embedder's message.
C29_Witness ==
    \E w \in Workers : \E d \in DocRows : \E x \in DocRows :
    \E c1 \in ChunksOf(d) : \E c2 \in ChunksOf(d) :
        /\ wk[w].pc = "failed_select"
        /\ wk[w].message = EmbedErrorMessage
        /\ d[1] = wk[w].jobId
        /\ x[1] = wk[w].jobId
        /\ uploadedDocuments[d].structured_status = "processing"
        /\ uploadedDocuments[x].structured_status = "pending"
        /\ c1.id[2] = c2.id[2]
        /\ c1.chunk_index = 0
        /\ c2.chunk_index = 1
        /\ \E e \in chunkEmbeddings : e.chunk_id = c1.id
        /\ \A e \in chunkEmbeddings : e.chunk_id # c2.id

\* C30: a job with status completed has error null, also after failed attempts
\* that stored an error on it; a job with status failed has a non-null error.
C30_ErrorMatchesTerminalStatus ==
    \A j \in JobRows :
        /\ ingestionJobs[j].status = "completed" => ingestionJobs[j].error = NULL
        /\ ingestionJobs[j].status = "failed" => ingestionJobs[j].error # NULL

\* C30 witness: a job completed by its second attempt, the first having failed and
\* stored its error.
C30_Witness ==
    \E j \in JobRows :
        /\ ingestionJobs[j].status = "completed"
        /\ ingestionJobs[j].attempt_count = 2
        /\ ingestionJobs[j].next_run_at > ingestionJobs[j].created_at
        /\ ingestionJobs[j].error = NULL

\* C31: a job gets status processing_embeddings only from the worker that has just
\* called insertDocumentChunks for a document of it in the current attempt; from
\* processing_embeddings it never goes to processing_structure; and the transition
\* repeated for a later document changes nothing of the row but its error.
C31_ProcessingEmbeddingsAfterInsert ==
    [][/\ \A w \in Workers :
            (wk'[w].pc = "set_processing_embeddings" /\ wk[w].pc # "set_processing_embeddings")
                => /\ wk[w].pc = "structure"
                   /\ \A i \in DOMAIN wk'[w].insertedChunks :
                        wk'[w].insertedChunks[i].document_id = CurrentDocument(w)
                   /\ documentChunks' \ documentChunks
                        = {wk'[w].insertedChunks[i] : i \in DOMAIN wk'[w].insertedChunks}
       /\ \A j \in JobRows :
            /\ (ingestionJobs'[j].status = "processing_embeddings"
                  /\ ingestionJobs[j].status # "processing_embeddings")
                  => \E w \in Workers : /\ wk[w].pc = "set_processing_embeddings"
                                         /\ wk[w].jobId = j
                                         /\ ingestionJobs[j].status = "processing_structure"
            /\ ingestionJobs[j].status = "processing_embeddings"
                  => /\ ingestionJobs'[j].status # "processing_structure"
                     /\ \A w \in Workers :
                          (wk[w].pc = "set_processing_embeddings" /\ wk[w].jobId = j
                             /\ wk'[w] # wk[w] /\ wk'[w].pc # "failed_select")
                              => ingestionJobs'[j] = [ingestionJobs[j] EXCEPT !.error = NULL]
       ]_vars

\* C31 witness: the second document of the attempt has had its chunks inserted and
\* the job is already in processing_embeddings from the first.
C31_Witness ==
    \E w \in Workers :
        /\ wk[w].pc = "set_processing_embeddings"
        /\ wk[w].di = 2
        /\ ingestionJobs[wk[w].jobId].status = "processing_embeddings"
        /\ uploadedDocuments[wk[w].documents[1]].structured_status = "structured"

\* C32: a job row starts with attempt_count 0 and keeps its id; attempt_count is
\* changed only by a successful claim, which adds exactly 1, so it never decreases
\* and counts the successful claims of the job; setJobStatus and
\* setJobFailedWithRetry leave it as it is.
C32_AttemptCountCountsClaims ==
    [][/\ JobRows \subseteq DOMAIN ingestionJobs'
       /\ \A j \in DOMAIN ingestionJobs' :
            /\ j \notin JobRows => ingestionJobs'[j].attempt_count = 0
            /\ j \in JobRows
                 => /\ ingestionJobs'[j].created_at = ingestionJobs[j].created_at
                    /\ ingestionJobs'[j].attempt_count # ingestionJobs[j].attempt_count
                         => /\ \E w \in Workers :
                                 ClaimSucceeds(w) /\ wk[w].candidateJob = j
                            /\ ingestionJobs'[j].attempt_count
                                 = ingestionJobs[j].attempt_count + 1
       /\ \A w \in Workers :
            ClaimSucceeds(w)
                => ingestionJobs'[wk[w].candidateJob].attempt_count
                     = ingestionJobs[wk[w].candidateJob].attempt_count + 1]_vars

\* C32 witness: a job re-queued after its second attempt, under the id it was
\* enqueued with.
C32_Witness ==
    \E j \in JobRows :
        /\ ingestionJobs[j].status = "queued"
        /\ ingestionJobs[j].attempt_count = 2
        /\ j \in DOMAIN requested

\* A job in a processing status that no worker process is working on.
Orphaned(j) ==
    /\ ingestionJobs[j].status \in ProcessingJobStatuses
    /\ \A w \in Workers : ~Holds(w, j)

\* C33: a job whose worker died between the claim and the final status write of
\* the attempt stays as it is: no step of any worker, surviving or restarted,
\* claims it or changes its row, and it stays without a worker.
C33_OrphanedJobStaysForever ==
    [][\A j \in JobRows :
          Orphaned(j) => /\ ingestionJobs'[j] = ingestionJobs[j]
                         /\ \A w \in Workers : ~(wk'[w].pc # "idle" /\ wk'[w].jobId = j)]_vars

\* C33 witness: the worker died in the embedding loop; the job is in
\* processing_embeddings with part of its embeddings stored, every worker process
\* is between ticks and a tick can run.
C33_Witness ==
    \E j \in JobRows :
        /\ Orphaned(j)
        /\ ingestionJobs[j].status = "processing_embeddings"
        /\ \A w \in Workers : wk[w] = IdleWorker
        /\ \E c \in ChunksOfJob(j) : EmbeddingsOf(c) # {}
        /\ \E c \in ChunksOfJob(j) : EmbeddingsOf(c) = {}
        /\ \E w \in Workers : ENABLED RunTick(w)

\* C34: a provider configuration error at startup is fatal: startWorker then
\* installs no timer, and that worker never runs a tick or claims a job. Inside
\* processIngestionJob it is not: the claimed job goes to setJobFailedWithRetry
\* with the error, which re-queues or fails it, and the worker, back between
\* ticks, can tick again.
C34_ConfigErrorFatalOnlyAtStartup ==
    [][\A w \in Workers :
          /\ (wk[w].pc = "starting" /\ wk'[w] # wk[w])
                => wk'[w] = [IdleWorker EXCEPT
                               !.pc = IF ConfigValid THEN "idle" ELSE "exited"]
          /\ wk[w].pc = "exited" => wk'[w] = wk[w]
          /\ (wk[w].pc = "get_documents" /\ ~ConfigValid /\ wk'[w] # wk[w])
                => /\ wk'[w].pc = "failed_select"
                   /\ wk'[w].jobId = wk[w].jobId
                   /\ wk'[w].message \in {ConfigErrorMessage, StoreErrorMessage}
          /\ (wk[w].pc = "failed_update" /\ wk[w].message = ConfigErrorMessage
                 /\ ingestionJobs'[wk[w].jobId] # ingestionJobs[wk[w].jobId])
                => /\ ingestionJobs'[wk[w].jobId].status \in {"queued", "failed"}
                   /\ ingestionJobs'[wk[w].jobId].error = ConfigErrorMessage
                   /\ wk'[w] = IdleWorker
          /\ (wk[w] = IdleWorker /\ ~isShuttingDown[w]) => ENABLED RunTick(w)]_vars

\* C34 witness: one worker found the configuration broken at startup and has
\* exited; the other started with a valid configuration, claimed the job after
\* the configuration was broken, and has re-queued it with the configuration error.
C34_Witness ==
    \E w \in Workers : \E v \in Workers : \E j \in JobRows :
        /\ wk[w].pc = "exited"
        /\ wk[v] = IdleWorker
        /\ ingestionJobs[j].status = "queued"
        /\ ingestionJobs[j].attempt_count = 1
        /\ ingestionJobs[j].error = ConfigErrorMessage

\* C35: in every reachable state a queued job has attempt_count < max_attempts:
\* setJobFailedWithRetry never re-queues a job that has used its last attempt,
\* so no queued job is out of claimNextQueuedJob's reach for its attempt count.
C35_QueuedJobHasAttemptsLeft ==
    \A j \in JobRows :
        ingestionJobs[j].status = "queued"
            => ingestionJobs[j].attempt_count < ingestionJobs[j].max_attempts

\* C35 witness: a job that used its last attempt has been marked failed by
\* setJobFailedWithRetry, after having been re-queued by it before.
C35_Witness ==
    \E j \in JobRows :
        /\ ingestionJobs[j].status = "failed"
        /\ ingestionJobs[j].attempt_count = ingestionJobs[j].max_attempts
        /\ ingestionJobs[j].error # "null"
        /\ \A w \in Workers : wk[w] = IdleWorker

\* C36: isTickRunning is true exactly while a tick body is executing; it is
\* false again when the tick has ended, whether it found no job, finished a job
\* or ended by an exception of claimNextQueuedJob or processIngestionJob, so a
\* worker between ticks that is not shutting down can always run the next tick.
C36_TickFlagFollowsTick ==
    \A w \in Workers :
        /\ wk[w].isTickRunning <=> wk[w].pc # "idle"
        /\ (wk[w].pc = "idle" /\ ~isShuttingDown[w]) => ENABLED RunTick(w)

\* C36 witness: a tick ended by an exception that left processIngestionJob (the
\* job is still in a processing status and nobody works on it), the flag is
\* reset and the next tick can run.
C36_Witness ==
    \E j \in JobRows :
        /\ ingestionJobs[j].status \in ProcessingJobStatuses
        /\ \A w \in Workers : wk[w].pc = "idle" /\ ~wk[w].isTickRunning
                                 /\ ENABLED RunTick(w)

\* C37: no two chunk_embeddings rows share (chunk_id, embedding_model), and the
\* unique index never rejects an insert: a chunk the embedding loop is about to
\* embed, a row its attempt has just inserted under a fresh id, has no
\* embedding row yet.
C37_UniqueIndexNeverRejects ==
    /\ \A e1 \in chunkEmbeddings : \A e2 \in chunkEmbeddings :
          (e1.chunk_id = e2.chunk_id /\ e1.embedding_model = e2.embedding_model)
              => e1 = e2
    /\ \A w \in Workers :
          wk[w].pc = "embed" =>
              \A i \in wk[w].ci..Len(wk[w].insertedChunks) :
                  UniqueChunkModel(insertChunkEmbedding(wk[w].insertedChunks[i].id,
                                                        embed(wk[w].insertedChunks[i].text)))

\* C37 witness: a later attempt is about to embed a chunk of a document whose
\* chunks of an earlier attempt, with the same text, are already embedded.
C37_Witness ==
    \E w \in Workers :
        /\ wk[w].pc = "embed"
        /\ ingestionJobs[wk[w].jobId].attempt_count >= 2
        /\ \E c \in ChunksOf(CurrentDocument(w)) :
              /\ c.id # wk[w].insertedChunks[wk[w].ci].id
              /\ c.text = wk[w].insertedChunks[wk[w].ci].text
              /\ EmbeddingsOf(c) # {}

\* C38: every attempt starts the document loop at the first document, and each
\* document the loop reaches is set to processing and handed to the structurer
\* whatever status an earlier attempt left on it; so a document an earlier
\* attempt finished can be left in processing by a later one.
C38_EveryAttemptRestartsDocuments ==
    [][\A w \in Workers :
          /\ (wk[w].pc = "get_documents" /\ wk'[w].pc \notin {"get_documents", "failed_select"})
                => /\ wk'[w].di = 1
                   /\ wk'[w].documents \in getDocumentsForJob(wk[w].jobId)
                   /\ wk'[w].documents # << >> => wk'[w].pc = "mark_processing"
          /\ (wk[w].pc = "mark_processing"
                 /\ wk'[w].pc \notin {"mark_processing", "failed_select"})
                => /\ wk'[w].pc = "structure"
                   /\ wk'[w].di = wk[w].di
                   /\ uploadedDocuments'[CurrentDocument(w)].structured_status
                          = "processing"]_vars

\* C38 witness: the first document, which an earlier attempt had finished (the
\* second document got its chunks after it), was set to processing again by the
\* last attempt and stays so: the job has failed and no worker holds it.
C38_Witness ==
    \E j \in JobRows : \E d1 \in DocumentsOf(j) : \E d2 \in DocumentsOf(j) :
        /\ d1 # d2
        /\ \A docs \in returned[j] : Len(docs) = 2 => docs[1] = d1
        /\ returned[j] # {}
        /\ ChunksOf(d2) # {}
        /\ uploadedDocuments[d1].structured_status = "processing"
        /\ ingestionJobs[j].status = "failed"
        /\ \A w \in Workers : wk[w] = IdleWorker

\* C39: a document whose status is processing or structured has a null error,
\* and a document whose status is failed has a non-null error: every write of
\* processing or structured clears the error, every write of failed stores one.
C39_DocumentErrorFollowsStatus ==
    \A d \in DocRows :
        /\ uploadedDocuments[d].structured_status \in {"processing", "structured"}
              => uploadedDocuments[d].error = NULL
        /\ uploadedDocuments[d].structured_status = "failed"
              => uploadedDocuments[d].error # NULL

\* C39 witness: in a later attempt a document has just been set to processing,
\* its error null, while another document of the job is failed with its error.
C39_Witness ==
    \E w \in Workers : \E d \in DocRows :
        /\ wk[w].pc = "structure"
        /\ ingestionJobs[wk[w].jobId].attempt_count >= 2
        /\ uploadedDocuments[CurrentDocument(w)].structured_status = "processing"
        /\ uploadedDocuments[CurrentDocument(w)].error = NULL
        /\ d # CurrentDocument(w)
        /\ uploadedDocuments[d].job_id = wk[w].jobId
        /\ uploadedDocuments[d].structured_status = "failed"
        /\ uploadedDocuments[d].error # NULL

====
